---- MODULE Spec2Model ----
(***************************************************************************)
(* Verification model of pdfdk-desktop's watch-and-pipeline engine:        *)
(*   watcher/mod.rs   stabilization engine, folder registry, path          *)
(*                    resolver, archive step, output path                  *)
(*   api/mod.rs       upload / poll / download client                      *)
(*   processor/mod.rs Job record and its setters                           *)
(*                                                                         *)
(*   lib.rs           the consumer task of the FileEvent channel           *)
(*                                                                         *)
(* The specifications share the variables:                                 *)
(*   Spec          the stabilization engine (process_events loop)          *)
(*   SpecFair      the same engine under its scheduling's fairness         *)
(*   SpecResolve   find_watched_folder over registries and iteration orders*)
(*   SpecPipeline  process_file_event runs against a nondeterministic API  *)
(*   SpecArchive   move_to_originals, call after call                      *)
(*   SpecConsumer  the broadcast channel and the consumer task             *)
(*   SpecJob       the Job record under its setters                        *)
(*   SpecRegistry  add_folder / remove_folder calls                        *)
(*   SpecScan      one scan's resolves against the registry's RwLock       *)
(*   SpecCallback  the notify callback and its bounded channel             *)
(*   SpecOutput    get_output_path over inputs, tools and output modes     *)
(*   SpecStop      a pipeline run while the FolderWatcher is dropped       *)
(*   SpecApp       the commands of lib.rs on the configuration, the        *)
(*                 watcher slot and the consumer tasks                     *)
(*   SpecTools     the same commands run one at a time, with               *)
(*                 update_tool_options                                     *)
(*   SpecLog       add_log and clear_logs on the log buffer                *)
(***************************************************************************)
EXTENDS Integers, Sequences, FiniteSets, TLC

VARIABLES
    \* ---- stabilization engine (watcher/mod.rs) ----
    notify_rx,        \* mpsc channel from the OS callback to process_events
    pending_files,    \* path -> time elapsed since the Instant stored for it
    sleep_elapsed,    \* time elapsed of the 500 ms sleep of the current select!
    watched_folders,  \* registry: folder path -> ToolConfig
    fs,               \* file system: path -> "missing" | "locked" | "readable"
    sent,             \* FileEvents passed to event_sender.send by the last scan
    quiet,            \* history: time since the engine last took a create/modify for a path
    burst_emits,      \* history: FileEvents sent for a path since its current burst began
    burst_notifs,     \* history: create/modify notifications taken in the current burst
    held_back,        \* history: pending paths a scan found due but not readable
    released,         \* history: paths the last scan sent after an earlier scan held them back
    last_op,          \* history: the handler that produced this state, and its event
    \* ---- path resolver inputs (SpecResolve) ----
    r_folders, r_order, r_path, r_result,
    \* ---- pipeline run (SpecPipeline) ----
    pc,               \* the step process_file_event is at
    input_present,    \* the original is still at event.path
    up_resp,          \* the upload response process_file got, if any
    job_uuid,         \* the job handle process_file returned, if any
    attempts,         \* poll_job's `attempts`
    polls,            \* history: status requests poll_job has sent
    slept_secs,       \* history: seconds poll_job has slept between requests
    poll_log,         \* history: the first MaxPollLog status responses, in order
    last_poll,        \* the latest status response, if any
    downloads,        \* history: download requests sent
    down_resp,        \* the download response download_result got, if any
    out_written,      \* the output file has been written
    out_disk,         \* the directory created and the file written by the download
    archive_err,      \* the call move_to_originals failed at, if it failed
    run_result,       \* what process_file_event returned, if it has
    job_trace,        \* (status, progress) of the run's processor::Job, as it changed
    \* ---- the Originals folder (SpecPipeline, SpecArchive) ----
    originals_dir,    \* file name -> content of the files in Originals
    clock,            \* SystemTime::now(), in seconds since the epoch
    archived,         \* history: originals moved so far
    \* ---- FileEvent channel and its consumer task (SpecConsumer) ----
    buffer_cap,       \* values the broadcast channel retains for a lagging receiver
    tx_count,         \* FileEvents sent so far; the n-th sent has sequence number n
    rx_next,          \* sequence number the receiver takes next
    consumer,         \* the consumer task: "recv" | "run" | "ended"
    last_outcome,     \* how the latest run of process_file_event ended
    consumed,         \* history: sequence numbers handed to a run
    consumed_twice,   \* history: a sequence number was handed to a second run
    send_failed,      \* history: event_sender.send returned Err (no receiver left)
    \* ---- a processor::Job (SpecJob) ----
    the_job,          \* the Job's fields, once constructed
    job_calls,        \* history: setter calls made on the Job
    job_was,          \* history: the statuses from which set_failed was called
    \* ---- folder registry calls (SpecRegistry) ----
    g_dirs,           \* directories that exist on disk
    g_watches,        \* folders the OS watcher watches
    g_registry,       \* watched_folders: folder path -> ToolConfig
    g_call,           \* the latest call and its arguments
    g_result,         \* what the latest call returned
    \* ---- one scan against the shared registry (SpecScan) ----
    s_registry,       \* watched_folders behind its RwLock
    s_pc,             \* check_pending_files: "idle" | "loop" (read guard held)
    s_ready,          \* ready_files not yet resolved by the current scan
    s_snapshot,       \* history: the registry when the read guard was taken
    s_events,         \* history: path and FileEvent (if any) per resolved path
    s_writer,         \* add_folder / remove_folder at its write().await, if any
    \* ---- the notify callback and its channel (SpecCallback) ----
    n_queue,          \* notifications held by the mpsc channel
    n_callback,       \* the OS notification thread: "idle" | "blocked"
    \* ---- get_output_path calls (SpecOutput) ----
    o_call,           \* the latest call's input path and ToolConfig
    o_path,           \* the path it returned
    \* ---- dropping the FolderWatcher (SpecStop) ----
    t_watcher,        \* AppState.watcher: "alive" | "dropped"
    t_delivered,      \* history: notifications the callback was run for
    t_accepted,       \* history: notifications process_events received
    t_drop_delivered, \* history: t_delivered when the watcher was dropped
    t_drop_pc,        \* history: where the pipeline run stood at the drop
    \* ---- the application commands (lib.rs, SpecApp) ----
    q_config,         \* AppState.config.tools, a Vec<ToolConfig>
    q_lock,           \* the command holding state.watcher.write(), if any
    q_pc,             \* where each command in flight stands
    q_args,           \* the tool configurations each command cloned
    q_watcher,        \* AppState.watcher: the FolderWatcher held, if any
    q_watchers,       \* every FolderWatcher created: creator, consumers, registry
    q_taken,          \* history: watchers save_config took out and dropped
    q_event,          \* the latest FileEvent a consumer task received
    q_outcomes,       \* history: runs that ended, Ok or Err
    q_notifications,  \* the desktop notifications requested
    \* ---- the log buffer (lib.rs, SpecLog) ----
    l_buffer,         \* LOG_BUFFER, a Vec<String>
    l_added           \* history: add_log calls since the latest clear_logs

wvars == <<notify_rx, pending_files, sleep_elapsed, watched_folders, fs, sent,
           quiet, burst_emits, burst_notifs, held_back, released, last_op>>
rvars == <<r_folders, r_order, r_path, r_result>>
pvars == <<pc, input_present, up_resp, job_uuid, attempts, polls, slept_secs, poll_log,
           last_poll, downloads, down_resp, out_written, out_disk, archive_err,
           run_result,
           job_trace>>
avars == <<originals_dir, clock, archived>>
cvars == <<buffer_cap, tx_count, rx_next, consumer, last_outcome, consumed,
           consumed_twice, send_failed>>
jvars == <<the_job, job_calls, job_was>>
gvars == <<g_dirs, g_watches, g_registry, g_call, g_result>>
svars == <<s_registry, s_pc, s_ready, s_snapshot, s_events, s_writer>>
nvars == <<n_queue, n_callback>>
ovars == <<o_call, o_path>>
tvars == <<t_watcher, t_delivered, t_accepted, t_drop_delivered, t_drop_pc>>
qvars == <<q_config, q_lock, q_pc, q_args, q_watcher, q_watchers, q_taken, q_event,
           q_outcomes, q_notifications>>
lvars == <<l_buffer, l_added>>
zvars == <<qvars, lvars>>
yvars == <<svars, nvars, ovars, tvars, zvars>>
xvars == <<cvars, jvars, gvars, yvars>>
vars  == <<wvars, rvars, pvars, avars, xvars>>

\* Option<T>: the empty sequence is None, a one-element sequence is Some(x).
NoneOpt == <<>>
Some(x) == <<x>>
IsSome(o) == Len(o) = 1
Unwrap(o) == o[1]

\* What the download has put on disk: nothing yet.
NoDisk == [dir |-> NoneOpt, file |-> NoneOpt]

(***************************************************************************)
(* Strings are sequences of one-character strings, so that the code's      *)
(* string tests (extension, prefix, suffix, case folding) are computed.    *)
(***************************************************************************)
Upper == <<"A","B","C","D","E","F","G","H","I","J","K","L","M",
           "N","O","P","Q","R","S","T","U","V","W","X","Y","Z">>
Lower == <<"a","b","c","d","e","f","g","h","i","j","k","l","m",
           "n","o","p","q","r","s","t","u","v","w","x","y","z">>

UpperSet == {Upper[i] : i \in 1..26}
LowerOf == [c \in UpperSet |-> Lower[CHOOSE i \in 1..26 : Upper[i] = c]]

to_ascii_lowercase(c) == IF c \in UpperSet THEN LowerOf[c] ELSE c

to_lowercase(s) == [i \in 1..Len(s) |-> to_ascii_lowercase(s[i])]

eq_ignore_ascii_case(s, t) ==
    /\ Len(s) = Len(t)
    /\ \A i \in 1..Len(s) : to_ascii_lowercase(s[i]) = to_ascii_lowercase(t[i])

starts_with_str(s, prefix) ==
    /\ Len(prefix) <= Len(s)
    /\ SubSeq(s, 1, Len(prefix)) = prefix

ends_with_str(s, suffix) ==
    /\ Len(suffix) <= Len(s)
    /\ SubSeq(s, Len(s) - Len(suffix) + 1, Len(s)) = suffix

\* Positions of "." in a file name.
DotPositions(name) == {i \in 1..Len(name) : name[i] = "."}

MaxOf(S) == CHOOSE x \in S : \A y \in S : y <= x

(***************************************************************************)
(* Paths are absolute: the sequence of their normal components.            *)
(***************************************************************************)
file_name(path) == IF Len(path) = 0 THEN NoneOpt ELSE Some(path[Len(path)])

\* std::path::Path::extension: the part after the last "." of the file name;
\* none without a ".", and none when the only "." is the first character.
extension(path) ==
    IF ~IsSome(file_name(path)) THEN NoneOpt
    ELSE LET name == Unwrap(file_name(path)) IN
         IF DotPositions(name) = {} THEN NoneOpt
         ELSE LET d == MaxOf(DotPositions(name)) IN
              IF d = 1 THEN NoneOpt ELSE Some(SubSeq(name, d + 1, Len(name)))

\* std::path::Path::file_stem: the file name without its extension.
file_stem(path) ==
    IF ~IsSome(file_name(path)) THEN NoneOpt
    ELSE LET name == Unwrap(file_name(path)) IN
         IF DotPositions(name) = {} THEN Some(name)
         ELSE LET d == MaxOf(DotPositions(name)) IN
              IF d = 1 THEN Some(name) ELSE Some(SubSeq(name, 1, d - 1))

\* std::path::Path::starts_with: component-wise prefix.
path_starts_with(path, base) ==
    /\ Len(base) <= Len(path)
    /\ SubSeq(path, 1, Len(base)) = base

parent(path) == SubSeq(path, 1, Len(path) - 1)

join(path, component) == Append(path, component)

RECURSIVE SumLen(_)
SumLen(path) == IF path = <<>> THEN 0 ELSE Len(Head(path)) + 1 + SumLen(Tail(path))

\* as_os_str().len(): the bytes of "/c1/c2/...".
os_str_len(path) == IF path = <<>> THEN 1 ELSE SumLen(path)

pdf == <<"p","d","f">>
processed == <<"p","r","o","c","e","s","s","e","d">>
originals == <<"o","r","i","g","i","n","a","l","s">>
dot_tmp == <<".","t","m","p">>
dot_part == <<".","p","a","r","t">>

is_pdf_file(path) ==
    LET e == extension(path) IN
    IF IsSome(e) THEN eq_ignore_ascii_case(Unwrap(e), pdf) ELSE FALSE

\* Mutant of is_in_processed_folder: only "processed" is looked for.
is_in_processed_folder_only(path) ==
    \E i \in 1..Len(path) : eq_ignore_ascii_case(path[i], processed)

is_in_processed_folder(path) ==
    \E i \in 1..Len(path) :
        \/ eq_ignore_ascii_case(path[i], processed)
        \/ eq_ignore_ascii_case(path[i], originals)

unknown == <<"u","n","k","n","o","w","n">>

\* The temporary-file test of handle_notify_event, on the file name
\* (or on "unknown" when the path has none).
is_temp_name(path) ==
    LET name == IF IsSome(file_name(path)) THEN Unwrap(file_name(path)) ELSE unknown IN
    \/ starts_with_str(name, <<".">>)
    \/ ends_with_str(name, dot_tmp)
    \/ ends_with_str(name, dot_part)

\* The three `continue` tests of handle_notify_event's loop, in order.
passes_filters(path) ==
    /\ is_pdf_file(path)
    /\ ~is_in_processed_folder(path)
    /\ ~is_temp_name(path)

(***************************************************************************)
(* Time.  The engine reads its Instants only through duration_since, so an *)
(* Instant is kept as the time elapsed since it was taken, counted in      *)
(* quanta of half a scan interval and capped at the threshold it is        *)
(* compared with.                                                          *)
(***************************************************************************)
SCAN_INTERVAL_MS == 500
DEBOUNCE_SECS == 2

Quantum == SCAN_INTERVAL_MS \div 2
ScanQ == SCAN_INTERVAL_MS \div Quantum
DebounceQ == (DEBOUNCE_SECS * 1000) \div Quantum

Min(a, b) == IF a <= b THEN a ELSE b

(***************************************************************************)
(* The paths, folders, tool configurations and notifications of the model. *)
(***************************************************************************)
MaxNotifyQueue == 1

DirW == <<"w">>
DirSub == <<"s","u","b">>

FolderW == <<DirW>>
FolderSub == <<DirW, DirSub>>
Folders == {FolderW, FolderSub}

PathA == <<DirW, <<"a",".","p","d","f">> >>
PathB == <<DirW, DirSub, <<"b",".","P","D","F">> >>
PathTxt == <<DirW, <<"a",".","t","x","t">> >>
PathNoExt == <<DirW, <<"p","d","f">> >>
PathDotPdf == <<DirW, <<".","p","d","f">> >>
PathHidden == <<DirW, <<".","a",".","p","d","f">> >>
PathPart == <<DirW, <<"a",".","p","d","f",".","p","a","r","t">> >>
PathTmp == <<DirW, <<"a",".","t","m","p">> >>
PathProcessed == <<DirW, <<"P","r","o","c","e","s","s","e","d">>, <<"a","_","c",".","p","d","f">> >>
PathOriginals == <<DirW, <<"O","R","I","G","I","N","A","L","S">>, <<"a",".","p","d","f">> >>

\* PDFs that handle_notify_event accepts.  The history variables follow
\* PathA, whose file other programs create, lock, release and delete;
\* PathB's file exists and is readable throughout.
TrackedPaths == {PathA}
OtherPaths == {PathB} \cup {PathTxt, PathNoExt, PathDotPdf, PathHidden, PathPart, PathTmp,
               PathProcessed, PathOriginals}
AllPaths == TrackedPaths \cup OtherPaths

\* notify::EventKind, as far as handle_notify_event tells the kinds apart.
EventKinds == {"Create", "Modify", "Remove"}

NoEvent == [kind |-> "None", paths |-> <<>>]

NotifyEvents ==
    { [kind |-> "Create", paths |-> <<PathA>>],
      [kind |-> "Modify", paths |-> <<PathTxt, PathNoExt, PathDotPdf, PathHidden, PathPart,
                                      PathTmp, PathProcessed, PathOriginals, PathA, PathB>>],
      [kind |-> "Remove", paths |-> <<PathB, PathA>>] }

\* config::ToolConfig (the options map plays no part in the engine).
ToolConfig(id, enabled, folder_path, output_mode) ==
    [id |-> id, enabled |-> enabled, folder_path |-> folder_path,
     output_mode |-> output_mode]

ToolConfigs ==
    { ToolConfig("compress", TRUE, Some(FolderW), <<"Subfolder">>),
      ToolConfig("pdf-to-word", TRUE, Some(FolderSub), <<"SameFolder">>),
      ToolConfig("outline", FALSE, Some(FolderW), <<"Subfolder">>),
      ToolConfig("outline", TRUE, NoneOpt, <<"Subfolder">>) }

\* watcher::FileEvent
FileEvent(path, tool_config) ==
    [path |-> path, tool_id |-> tool_config.id, tool_config |-> tool_config]

(***************************************************************************)
(* Folder registry and path resolver.                                      *)
(***************************************************************************)
\* The sequences that enumerate a set once each: a HashMap's iteration orders.
Orders(S) ==
    {o \in [1..Cardinality(S) -> S] : \A x \in S : \E i \in DOMAIN o : o[i] = x}

\* Mutant of MatchStep: the first matching folder met is kept.
MatchStepFirst(best, file_path, folder_path) ==
    IF path_starts_with(file_path, folder_path) /\ ~IsSome(best.best_match)
    THEN [best_match |-> Some(folder_path), best_len |-> os_str_len(folder_path)]
    ELSE best

\* The body of find_watched_folder's loop for one registry entry.
MatchStep(best, file_path, folder_path) ==
    IF path_starts_with(file_path, folder_path)
       /\ os_str_len(folder_path) > best.best_len
    THEN [best_match |-> Some(folder_path), best_len |-> os_str_len(folder_path)]
    ELSE best

RECURSIVE MatchLoop(_, _, _)
MatchLoop(best, file_path, order) ==
    IF order = <<>> THEN best
    ELSE MatchLoop(MatchStep(best, file_path, Head(order)), file_path, Tail(order))

\* find_watched_folder, iterating the registry's keys in `order`:
\* Some(folder) or None.
find_watched_folder(file_path, order) ==
    MatchLoop([best_match |-> NoneOpt, best_len |-> 0], file_path, order).best_match

(***************************************************************************)
(* Stabilization engine: FolderWatcher::process_events and its handlers.   *)
(***************************************************************************)
Put(f, k, v) == [x \in DOMAIN f \cup {k} |-> IF x = k THEN v ELSE f[x]]
Restrict(f, S) == [x \in S |-> f[x]]

\* Mutant of PendingInsert: an entry already pending keeps its Instant.
PendingInsertIfAbsent(pending, path) ==
    IF path \in DOMAIN pending THEN pending ELSE Put(pending, path, 0)

\* pending_files.insert(path, Instant::now())
PendingInsert(pending, path) == Put(pending, path, 0)

\* passes_filters, tabulated over the model's paths.
PassesFilters == [path \in AllPaths |-> passes_filters(path)]

\* The `for path in event.paths` loop of handle_notify_event.
RECURSIVE InsertAccepted(_, _)
InsertAccepted(pending, paths) ==
    IF paths = <<>> THEN pending
    ELSE InsertAccepted(
            IF PassesFilters[Head(paths)] THEN PendingInsert(pending, Head(paths))
            ELSE pending,
            Tail(paths))

\* Mutant of handle_notify_event: the kind of the event is not looked at.
handle_notify_event_any_kind(event, pending) ==
    InsertAccepted(pending, event.paths)

\* handle_notify_event: the pending set after the event.
handle_notify_event(event, pending) ==
    IF event.kind \in {"Create", "Modify"}
    THEN InsertAccepted(pending, event.paths)
    ELSE pending

path_exists(path) == fs[path] # "missing"

\* is_file_ready: the file opens for reading.
is_file_ready(path) == fs[path] = "readable"

\* Mutant of ReadyFiles: an entry counts as stable one quantum early.
ReadyFilesEarly(pending) ==
    {p \in DOMAIN pending :
        /\ pending[p] >= DebounceQ - 1
        /\ path_exists(p)
        /\ is_file_ready(p)}

\* Mutant of ReadyFiles: the readability probe is left out.
ReadyFilesNoProbe(pending) ==
    {p \in DOMAIN pending : pending[p] >= DebounceQ}

\* check_pending_files, first loop: the paths that have stabilized.
ReadyFiles(pending) ==
    {p \in DOMAIN pending :
        /\ pending[p] >= DebounceQ
        /\ path_exists(p)
        /\ is_file_ready(p)}

\* Mutant of RemoveReady: promoted paths stay pending.
RemoveReadyKeeps(pending, ready) == pending

\* check_pending_files, second loop: pending_files.remove(&path) for each.
RemoveReady(pending, ready) == Restrict(pending, DOMAIN pending \ ready)

\* check_pending_files, second loop: the FileEvents sent, the registry's
\* keys being iterated in `order`.
EventsFor(ready, folders, order) ==
    { FileEvent(p, folders[Unwrap(find_watched_folder(p, order))]) :
        p \in {q \in ready : IsSome(find_watched_folder(q, order))} }

EventPaths(events) == {e.path : e \in events}

Op(op, event) == [op |-> op, event |-> event]

WatcherInit ==
    /\ notify_rx = <<>>
    /\ pending_files = <<>>
    /\ sleep_elapsed = 0
    /\ watched_folders = <<>>
    /\ fs = [p \in AllPaths |-> IF p \in TrackedPaths THEN "missing" ELSE "readable"]
    /\ sent = {}
    /\ quiet = [p \in TrackedPaths |-> DebounceQ]
    /\ burst_emits = [p \in TrackedPaths |-> 0]
    /\ burst_notifs = [p \in TrackedPaths |-> 0]
    /\ held_back = {}
    /\ released = {}
    /\ last_op = Op("other", NoEvent)

\* The OS callback: notify_tx.blocking_send(event).  The channel's capacity
\* is cut to MaxNotifyQueue.
OsNotify(event) ==
    /\ Len(notify_rx) < MaxNotifyQueue
    /\ notify_rx' = Append(notify_rx, event)
    /\ last_op' = Op("other", NoEvent)
    /\ UNCHANGED <<pending_files, sleep_elapsed, watched_folders, fs, sent,
                   quiet, burst_emits, burst_notifs, held_back, released>>

\* select! branch `Some(event) = rx.recv()`; the next iteration starts a new sleep.
RecvEvent ==
    /\ notify_rx # <<>>
    /\ LET event == Head(notify_rx)
           taken == {p \in TrackedPaths :
                        /\ event.kind \in {"Create", "Modify"}
                        /\ \E i \in DOMAIN event.paths : event.paths[i] = p}
       IN /\ pending_files' = handle_notify_event(event, pending_files)
          /\ quiet' = [p \in TrackedPaths |-> IF p \in taken THEN 0 ELSE quiet[p]]
          /\ burst_emits' = [p \in TrackedPaths |->
                                IF p \in taken /\ quiet[p] >= DebounceQ
                                THEN 0 ELSE burst_emits[p]]
          /\ burst_notifs' = [p \in TrackedPaths |->
                                IF p \notin taken THEN burst_notifs[p]
                                ELSE IF quiet[p] >= DebounceQ THEN 1
                                ELSE Min(2, burst_notifs[p] + 1)]
          /\ held_back' = held_back \ taken
          /\ released' = released \ taken
          /\ last_op' = Op("recv", event)
    /\ notify_rx' = Tail(notify_rx)
    /\ sleep_elapsed' = 0
    /\ UNCHANGED <<watched_folders, fs, sent>>

\* select! branch `_ = sleep(500 ms)`: check_pending_files.
ScanTick ==
    /\ sleep_elapsed >= ScanQ
    /\ \E order \in Orders(DOMAIN watched_folders) :
        LET ready == ReadyFiles(pending_files)
            events == EventsFor(ready, watched_folders, order)
        IN /\ pending_files' = RemoveReady(pending_files, ready)
           /\ sent' = events
           /\ burst_emits' = [p \in TrackedPaths |->
                                IF p \in EventPaths(events)
                                THEN Min(2, burst_emits[p] + 1) ELSE burst_emits[p]]
           /\ held_back' = (held_back \cup
                              {p \in DOMAIN pending_files :
                                  pending_files[p] >= DebounceQ /\ ~is_file_ready(p)})
                           \ ready
           /\ released' = held_back \cap EventPaths(events)
    /\ sleep_elapsed' = 0
    /\ last_op' = Op("scan", NoEvent)
    /\ UNCHANGED <<notify_rx, watched_folders, fs, quiet, burst_notifs>>

\* A quantum of time passes.
Tick ==
    /\ pending_files' = [p \in DOMAIN pending_files |->
                            Min(DebounceQ, pending_files[p] + 1)]
    /\ sleep_elapsed' = Min(ScanQ, sleep_elapsed + 1)
    /\ quiet' = [p \in TrackedPaths |-> Min(DebounceQ, quiet[p] + 1)]
    /\ last_op' = Op("other", NoEvent)
    /\ UNCHANGED <<notify_rx, watched_folders, fs, sent, burst_emits, burst_notifs,
                   held_back, released>>

\* Another program creates, locks, releases or deletes a watched file.
FsChange(path, state) ==
    /\ fs[path] # state
    /\ fs' = [fs EXCEPT ![path] = state]
    /\ last_op' = Op("other", NoEvent)
    /\ UNCHANGED <<notify_rx, pending_files, sleep_elapsed, watched_folders, sent,
                   quiet, burst_emits, burst_notifs, held_back, released>>

\* add_folder: nothing happens without a folder or for a disabled tool;
\* otherwise the entry is inserted, or the call fails (create_dir_all, watch).
add_folder(tool_config) ==
    /\ \/ /\ IsSome(tool_config.folder_path) /\ tool_config.enabled
          /\ watched_folders' =
                Put(watched_folders, Unwrap(tool_config.folder_path), tool_config)
       \/ UNCHANGED watched_folders
    /\ last_op' = Op("other", NoEvent)
    /\ UNCHANGED <<notify_rx, pending_files, sleep_elapsed, fs, sent,
                   quiet, burst_emits, burst_notifs, held_back, released>>

\* remove_folder of a watched folder.
remove_folder(folder_path) ==
    /\ folder_path \in DOMAIN watched_folders
    /\ watched_folders' =
          Restrict(watched_folders, DOMAIN watched_folders \ {folder_path})
    /\ last_op' = Op("other", NoEvent)
    /\ UNCHANGED <<notify_rx, pending_files, sleep_elapsed, fs, sent,
                   quiet, burst_emits, burst_notifs, held_back, released>>

(***************************************************************************)
(* Remote API client: api/mod.rs.                                          *)
(***************************************************************************)
POLL_INTERVAL_SECS == 2
MAX_POLL_ATTEMPTS == 300

Ok(value) == [ok |-> TRUE, value |-> value]
Err(error) == [ok |-> FALSE, value |-> error]

\* reqwest::StatusCode::is_success
is_success(status) == status >= 200 /\ status <= 299

\* str::contains
contains(s, needle) ==
    \E i \in 1..(Len(s) - Len(needle) + 1) : SubSeq(s, i, i + Len(needle) - 1) = needle

\* Option::or
OptionOr(a, b) == IF IsSome(a) THEN a ELSE b

queued == <<"q","u","e","u","e","d">>
processing == <<"p","r","o","c","e","s","s","i","n","g">>
completed == <<"c","o","m","p","l","e","t","e","d">>
done == <<"d","o","n","e">>
failed == <<"f","a","i","l","e","d">>
error == <<"e","r","r","o","r">>
unauthorized == <<"u","n","a","u","t","h","o","r","i","z","e","d">>

\* Mutant of JobStatus_from: "done" is not taken for Completed.
JobStatus_from_without_done(s) ==
    LET lowered == to_lowercase(s) IN
    IF lowered = queued THEN <<"Queued">>
    ELSE IF lowered = processing THEN <<"Processing">>
    ELSE IF lowered = completed THEN <<"Completed">>
    ELSE IF lowered \in {failed, error} THEN <<"Failed">>
    ELSE <<"Unknown", lowered>>

\* impl From<&str> for JobStatus
JobStatus_from(s) ==
    LET lowered == to_lowercase(s) IN
    IF lowered = queued THEN <<"Queued">>
    ELSE IF lowered = processing THEN <<"Processing">>
    ELSE IF lowered \in {completed, done} THEN <<"Completed">>
    ELSE IF lowered \in {failed, error} THEN <<"Failed">>
    ELSE <<"Unknown", lowered>>

\* An HTTP exchange: the transport fails, or a status and a body come back.
\* A body is unparsable (parsed = FALSE) or carries the payload's fields.
NoBody == [parsed |-> FALSE]
HttpResponse(status, body) == [transport |-> "ok", status |-> status, body |-> body]
NetworkError == [transport |-> "error"]

\* UploadResponse payloads: success, data.job_uuid.
UploadBody(success, data) == [parsed |-> TRUE, success |-> success, data |-> data]

UploadBodies ==
    { NoBody,
      UploadBody(TRUE, Some("uuid-1")), UploadBody(TRUE, NoneOpt),
      UploadBody(FALSE, Some("uuid-1")), UploadBody(FALSE, NoneOpt) }

HttpStatuses == {200, 201, 302, 401, 404, 413, 429, 500}

UploadResponses ==
    {NetworkError} \cup {HttpResponse(st, b) : st \in HttpStatuses, b \in UploadBodies}

\* Mutant of UploadOutcome: 413 and 429 are taken for each other.
UploadOutcomeSwapped(resp) ==
    IF resp.transport # "ok" THEN Err("Network")
    ELSE IF resp.status = 401 THEN Err("Unauthorized")
    ELSE IF resp.status = 413 THEN Err("JobLimitExceeded")
    ELSE IF resp.status = 429 THEN Err("FileTooLarge")
    ELSE IF ~is_success(resp.status) THEN Err("ServerError")
    ELSE IF ~resp.body.parsed THEN Err("ServerError")
    ELSE IF ~resp.body.success THEN Err("ServerError")
    ELSE IF IsSome(resp.body.data) THEN Ok(Unwrap(resp.body.data))
    ELSE Err("ServerError")

\* process_file, from `request.send().await?` on: Ok(job_uuid) or Err(kind).
UploadOutcome(resp) ==
    IF resp.transport # "ok" THEN Err("Network")
    ELSE IF resp.status = 401 THEN Err("Unauthorized")
    ELSE IF resp.status = 429 THEN Err("JobLimitExceeded")
    ELSE IF resp.status = 413 THEN Err("FileTooLarge")
    ELSE IF ~is_success(resp.status) THEN Err("ServerError")
    ELSE IF ~resp.body.parsed THEN Err("ServerError")
    ELSE IF ~resp.body.success THEN Err("ServerError")
    ELSE IF IsSome(resp.body.data) THEN Ok(Unwrap(resp.body.data))
    ELSE Err("ServerError")

\* JobStatusResponse payloads: success, error, message, data.status and
\* data.error.
PollBody(success, err, message, data) ==
    [parsed |-> TRUE, success |-> success, error |-> err, message |-> message,
     data |-> data, job_error |-> NoneOpt]

StatusBody(status) == PollBody(TRUE, NoneOpt, NoneOpt, Some(status))

\* A payload whose data carries an error text besides its status.
FailedBody(status, job_error) == [StatusBody(status) EXCEPT !.job_error = job_error]

bad_pdf == <<"b","a","d"," ","p","d","f">>
unknown_error == <<"U","n","k","n","o","w","n"," ","e","r","r","o","r">>

\* An ApiError variant that carries a String: ServerError(msg), JobFailed(msg).
ErrWith(kind, text) == [ok |-> FALSE, value |-> kind, text |-> text]

PollResponses ==
    { NetworkError,
      HttpResponse(401, NoBody),
      HttpResponse(200, NoBody),
      HttpResponse(200, PollBody(FALSE, Some(<<"U","n","a","u","t","h","o","r","i","z","e","d">>),
                                 NoneOpt, NoneOpt)),
      HttpResponse(200, PollBody(FALSE, Some(<<"b","o","o","m">>), Some(unauthorized), NoneOpt)),
      HttpResponse(200, PollBody(FALSE, NoneOpt, NoneOpt, Some(completed))),
      HttpResponse(200, PollBody(TRUE, NoneOpt, NoneOpt, NoneOpt)),
      HttpResponse(200, StatusBody(queued)),
      HttpResponse(200, StatusBody(<<"P","r","o","c","e","s","s","i","n","g">>)),
      HttpResponse(200, StatusBody(<<"P","a","u","s","e","d">>)),
      HttpResponse(500, StatusBody(processing)),
      HttpResponse(200, StatusBody(completed)),
      HttpResponse(200, StatusBody(<<"D","o","n","e">>)),
      HttpResponse(200, StatusBody(failed)),
      HttpResponse(200, StatusBody(<<"E","R","R","O","R">>)),
      HttpResponse(200, FailedBody(<<"F","a","i","l","e","d">>, Some(bad_pdf))) }

\* Mutant of PollOutcome: "unauthorized" is looked for in the text as sent.
PollOutcomeCaseSensitive(resp) ==
    IF resp.transport # "ok" THEN Err("Network")
    ELSE IF resp.status = 401 THEN Err("Unauthorized")
    ELSE IF ~resp.body.parsed THEN Err("ServerError")
    ELSE IF ~resp.body.success THEN
        LET msg == OptionOr(resp.body.error, resp.body.message)
            text == IF IsSome(msg) THEN Unwrap(msg) ELSE <<>>
        IN IF contains(text, unauthorized)
           THEN Err("Unauthorized") ELSE ErrWith("ServerError", text)
    ELSE IF IsSome(resp.body.data) THEN
        LET status == JobStatus_from(Unwrap(resp.body.data)) IN
        IF status = <<"Completed">> THEN Ok("Completed")
        ELSE IF status = <<"Failed">>
        THEN ErrWith("JobFailed", IF IsSome(resp.body.job_error)
                                  THEN Unwrap(resp.body.job_error) ELSE unknown_error)
        ELSE Ok("Retry")
    ELSE Ok("Retry")

\* Mutant of PollOutcome: JobFailed carries the response's top-level error.
PollOutcomeTopLevelError(resp) ==
    IF resp.transport # "ok" THEN Err("Network")
    ELSE IF resp.status = 401 THEN Err("Unauthorized")
    ELSE IF ~resp.body.parsed THEN Err("ServerError")
    ELSE IF ~resp.body.success THEN
        LET msg == OptionOr(resp.body.error, resp.body.message)
            text == IF IsSome(msg) THEN Unwrap(msg) ELSE <<>>
        IN IF contains(to_lowercase(text), unauthorized)
           THEN Err("Unauthorized") ELSE ErrWith("ServerError", text)
    ELSE IF IsSome(resp.body.data) THEN
        LET status == JobStatus_from(Unwrap(resp.body.data)) IN
        IF status = <<"Completed">> THEN Ok("Completed")
        ELSE IF status = <<"Failed">>
        THEN ErrWith("JobFailed", IF IsSome(resp.body.error)
                                  THEN Unwrap(resp.body.error) ELSE unknown_error)
        ELSE Ok("Retry")
    ELSE Ok("Retry")

\* One pass of poll_job's loop body after the request was sent: Ok("Completed"),
\* Ok("Retry") (sleep and loop) or Err(kind), with the text the error carries.
PollOutcome(resp) ==
    IF resp.transport # "ok" THEN Err("Network")
    ELSE IF resp.status = 401 THEN Err("Unauthorized")
    ELSE IF ~resp.body.parsed THEN Err("ServerError")
    ELSE IF ~resp.body.success THEN
        LET msg == OptionOr(resp.body.error, resp.body.message)
            text == IF IsSome(msg) THEN Unwrap(msg) ELSE <<>>
        IN IF contains(to_lowercase(text), unauthorized)
           THEN Err("Unauthorized") ELSE ErrWith("ServerError", text)
    ELSE IF IsSome(resp.body.data) THEN
        LET status == JobStatus_from(Unwrap(resp.body.data)) IN
        IF status = <<"Completed">> THEN Ok("Completed")
        ELSE IF status = <<"Failed">>
        THEN ErrWith("JobFailed", IF IsSome(resp.body.job_error)
                                  THEN Unwrap(resp.body.job_error) ELSE unknown_error)
        ELSE Ok("Retry")
    ELSE Ok("Retry")

\* Mutant of PollLimitReached: the ceiling is hit one attempt early.
PollLimitReachedEarly(n) == n >= MAX_POLL_ATTEMPTS

\* poll_job: `attempts > MAX_POLL_ATTEMPTS`, after `attempts += 1`.
PollLimitReached(n) == n > MAX_POLL_ATTEMPTS

DownloadResponses == {NetworkError} \cup {HttpResponse(st, NoBody) : st \in HttpStatuses}

\* Mutant of DownloadOutcome: 401 is not told apart from the other statuses.
DownloadOutcomeNo401(resp) ==
    IF resp.transport # "ok" THEN Err("Network")
    ELSE IF ~is_success(resp.status) THEN Err("ServerError")
    ELSE Ok("Body")

\* Mutant of DownloadOutcome: a status that is not a success passes.
DownloadOutcomeLenient(resp) ==
    IF resp.transport # "ok" THEN Err("Network")
    ELSE IF resp.status = 401 THEN Err("Unauthorized")
    ELSE Ok("Body")

\* download_result up to the response's status: Ok("Body") or Err(kind).
DownloadOutcome(resp) ==
    IF resp.transport # "ok" THEN Err("Network")
    ELSE IF resp.status = 401 THEN Err("Unauthorized")
    ELSE IF ~is_success(resp.status) THEN Err("ServerError")
    ELSE Ok("Body")

(***************************************************************************)
(* Job bookkeeping: processor/mod.rs.                                      *)
(***************************************************************************)
\* Job::new, without the fields no setter touches (id, tool_id, input_file,
\* created_at).
Job_new ==
    [status |-> "Pending", progress |-> NoneOpt, output_file |-> NoneOpt,
     error |-> NoneOpt, completed_at |-> NoneOpt]
set_uploading(job) == [job EXCEPT !.status = "Uploading", !.progress = Some(10)]
set_processing(job) == [job EXCEPT !.status = "Processing", !.progress = Some(50)]
set_downloading(job) == [job EXCEPT !.status = "Downloading", !.progress = Some(80)]
set_completed(job, output_file, now) ==
    [job EXCEPT !.status = "Completed", !.progress = Some(100),
                !.output_file = Some(output_file), !.completed_at = Some(now)]
set_failed(job, message, now) ==
    [job EXCEPT !.status = "Failed", !.error = Some(message), !.completed_at = Some(now)]

(***************************************************************************)
(* The pipeline: process_file_event and move_to_originals, watcher/mod.rs. *)
(***************************************************************************)
Digits == <<"0","1","2","3","4","5","6","7","8","9">>

\* u64's Display: the decimal digits.
RECURSIVE to_string(_)
to_string(n) ==
    IF n < 10 THEN <<Digits[n + 1]>>
    ELSE Append(to_string(n \div 10), Digits[(n % 10) + 1])

ToolIdText ==
    [ id \in {"compress", "pdf-to-word", "pdf-to-excel", "pdf-to-jpg", "outline"} |->
        CASE id = "compress" -> <<"c","o","m","p","r","e","s","s">>
          [] id = "pdf-to-word" -> <<"p","d","f","-","t","o","-","w","o","r","d">>
          [] id = "pdf-to-excel" -> <<"p","d","f","-","t","o","-","e","x","c","e","l">>
          [] id = "pdf-to-jpg" -> <<"p","d","f","-","t","o","-","j","p","g">>
          [] id = "outline" -> <<"o","u","t","l","i","n","e">> ]

\* get_output_path
\* Mutant of get_output_path: every tool's output is named .pdf.
get_output_path_pdf(input_path, config) ==
    LET stem == IF IsSome(file_stem(input_path)) THEN Unwrap(file_stem(input_path))
                ELSE <<"o","u","t","p","u","t">>
        output_filename == stem \o <<"_">> \o ToolIdText[config.id] \o <<".">> \o pdf
    IN CASE config.output_mode[1] = "SameFolder" -> join(parent(input_path), output_filename)
         [] config.output_mode[1] = "Subfolder" ->
                join(join(parent(input_path), <<"P","r","o","c","e","s","s","e","d">>),
                     output_filename)
         [] config.output_mode[1] = "Custom" -> join(config.output_mode[2], output_filename)

get_output_path(input_path, config) ==
    LET stem == IF IsSome(file_stem(input_path)) THEN Unwrap(file_stem(input_path))
                ELSE <<"o","u","t","p","u","t">>
        ext == CASE config.id = "pdf-to-word" -> <<"d","o","c","x">>
                 [] config.id = "pdf-to-excel" -> <<"x","l","s","x">>
                 [] config.id = "pdf-to-jpg" -> <<"z","i","p">>
                 [] OTHER -> pdf
        output_filename == stem \o <<"_">> \o ToolIdText[config.id] \o <<".">> \o ext
    IN CASE config.output_mode[1] = "SameFolder" -> join(parent(input_path), output_filename)
         [] config.output_mode[1] = "Subfolder" ->
                join(join(parent(input_path), <<"P","r","o","c","e","s","s","e","d">>),
                     output_filename)
         [] config.output_mode[1] = "Custom" -> join(config.output_mode[2], output_filename)

\* move_to_originals: the name the original gets in Originals.
DestName(file_path, dir, now) ==
    LET filename == IF IsSome(file_name(file_path)) THEN Unwrap(file_name(file_path))
                    ELSE <<>>
        stem == IF IsSome(file_stem(file_path)) THEN Unwrap(file_stem(file_path))
                ELSE <<"f","i","l","e">>
        ext == IF IsSome(extension(file_path)) THEN Unwrap(extension(file_path)) ELSE pdf
    IN IF filename \in DOMAIN dir
       THEN stem \o <<"_">> \o to_string(now) \o <<".">> \o ext
       ELSE filename

ArchiveIo == {"ok", "create_dir_all", "rename"}

\* move_to_originals(file_path) for an original of the given content, with the
\* outcome of its file-system calls: the result and Originals afterwards.
\* rename replaces a file already at the destination.
move_to_originals(file_path, content, dir, now, io) ==
    IF io = "create_dir_all" THEN [result |-> Err("Io"), dir |-> dir, moved |-> FALSE]
    ELSE IF io = "rename" THEN [result |-> Err("Io"), dir |-> dir, moved |-> FALSE]
    ELSE [result |-> Ok("Unit"),
          dir |-> Put(dir, DestName(file_path, dir, now), content),
          moved |-> TRUE]

RunEvents == { FileEvent(PathA, ToolConfig("compress", TRUE, Some(FolderW), <<"Subfolder">>)) }

\* Mutant of RunResult: an archive error fails the run.
RunResultPropagates(event, archive_result) ==
    IF archive_result.ok THEN Ok(get_output_path(event.path, event.tool_config))
    ELSE archive_result

\* process_file_event after process_and_download succeeded: the archive
\* error is logged only.
RunResult(event, archive_result) == Ok(get_output_path(event.path, event.tool_config))

MaxPollLog == 4

PipelineIdle ==
    /\ pc = "idle"
    /\ input_present = FALSE
    /\ up_resp = NoneOpt
    /\ job_uuid = NoneOpt
    /\ attempts = 0
    /\ polls = 0
    /\ slept_secs = 0
    /\ poll_log = <<>>
    /\ last_poll = NoneOpt
    /\ downloads = 0
    /\ down_resp = NoneOpt
    /\ out_written = FALSE
    /\ out_disk = NoDisk
    /\ archive_err = NoneOpt
    /\ run_result = NoneOpt
    /\ job_trace = <<>>

ArchiveIdle ==
    /\ originals_dir = <<>>
    /\ clock = 0
    /\ archived = 0

BROADCAST_CAPACITY == 100

\* No FileEvent was sent; the consumer task waits in rx.recv().
ConsumerIdle ==
    /\ buffer_cap = BROADCAST_CAPACITY
    /\ tx_count = 0
    /\ rx_next = 1
    /\ consumer = "recv"
    /\ last_outcome = "none"
    /\ consumed = {}
    /\ consumed_twice = FALSE
    /\ send_failed = FALSE

\* No Job was constructed.
JobIdle ==
    /\ the_job = NoneOpt
    /\ job_calls = 0
    /\ job_was = {}

\* No FolderWatcher call was made.
RegistryIdle ==
    /\ g_dirs = {}
    /\ g_watches = {}
    /\ g_registry = <<>>
    /\ g_call = NoneOpt
    /\ g_result = NoneOpt

\* No scan is running and no writer waits for the registry.
ScanIdle ==
    /\ s_registry = <<>>
    /\ s_pc = "idle"
    /\ s_ready = <<>>
    /\ s_snapshot = <<>>
    /\ s_events = <<>>
    /\ s_writer = NoneOpt

\* The notify channel is empty and no callback is running.
CallbackIdle ==
    /\ n_queue = 0
    /\ n_callback = "idle"

\* get_output_path has not been called.
OutputIdle ==
    /\ o_call = NoneOpt
    /\ o_path = NoneOpt

\* The FolderWatcher exists and no notification has arrived.
StopIdle ==
    /\ t_watcher = "alive"
    /\ t_delivered = 0
    /\ t_accepted = 0
    /\ t_drop_delivered = 0
    /\ t_drop_pc = "none"

\* No command was called; the configuration has no tool and no watcher
\* exists.
AppIdle ==
    /\ q_config = <<>>
    /\ q_lock = NoneOpt
    /\ q_pc = <<>>
    /\ q_args = <<>>
    /\ q_watcher = NoneOpt
    /\ q_watchers = <<>>
    /\ q_taken = 0
    /\ q_event = NoneOpt
    /\ q_outcomes = 0
    /\ q_notifications = <<>>

\* Nothing was logged.
LogIdle ==
    /\ l_buffer = <<>>
    /\ l_added = 0

LaterIdle == AppIdle /\ LogIdle

MoreIdle == ScanIdle /\ CallbackIdle /\ OutputIdle /\ StopIdle /\ LaterIdle

ExtrasIdle == ConsumerIdle /\ JobIdle /\ RegistryIdle /\ MoreIdle

ResolveIdle ==
    /\ r_folders = <<>>
    /\ r_order = <<>>
    /\ r_path = <<>>
    /\ r_result = NoneOpt

Init == WatcherInit /\ ResolveIdle /\ PipelineIdle /\ ArchiveIdle /\ ExtrasIdle

Next ==
    \/ /\ \/ \E event \in NotifyEvents : OsNotify(event)
          \/ RecvEvent
          \/ ScanTick
          \/ Tick
          \/ \E path \in TrackedPaths, state \in {"missing", "locked", "readable"} :
                FsChange(path, state)
          \/ \E tool_config \in ToolConfigs : add_folder(tool_config)
          \/ \E folder_path \in Folders : remove_folder(folder_path)
       /\ UNCHANGED <<rvars, pvars, avars, xvars>>

Spec == Init /\ [][Next]_vars

\* The engine under the fairness its scheduling gives: time passes, a queued
\* notification is taken by the recv branch, and a sleep that has run its
\* 500 ms without the iteration being ended by a notification fires the scan.
FairStep(A) == A /\ UNCHANGED <<rvars, pvars, avars, xvars>>

SpecFair ==
    /\ Init
    /\ [][Next]_vars
    /\ WF_vars(FairStep(Tick))
    /\ WF_vars(FairStep(RecvEvent))
    /\ WF_vars(FairStep(ScanTick))

(***************************************************************************)
(* SpecResolve: find_watched_folder applied to every registry over         *)
(* ResolveFolders, every iteration order of it and every path of           *)
(* ResolvePaths.                                                           *)
(***************************************************************************)
DirA == <<"a">>
DirB == <<"b">>
DirAb == <<"a","b">>
FileC == <<"c",".","p","d","f">>

\* "/", "/a", "/a/b", "/a/b/b" and "/ab": nested folders, and one whose
\* name only a string comparison would take for a prefix of "/a/b".
ResolveFolders == { <<>>, <<DirA>>, <<DirA, DirB>>, <<DirA, DirB, DirB>>, <<DirAb>> }

ResolvePaths ==
    { <<DirA, DirB, FileC>>, <<DirA, FileC>>, <<DirAb, FileC>>, <<DirB, FileC>>,
      <<DirA, DirB, DirB, FileC>>, <<FileC>> }

\* The configuration registered for a folder: one tool per folder.
ResolveConfig(folder) ==
    ToolConfig(<<"tool", Len(folder), os_str_len(folder)>>, TRUE, Some(folder), <<"Subfolder">>)

\* What the caller in check_pending_files gets: Some((folder, config)) or None.
ResolveCall(file_path, folders, order) ==
    LET found == find_watched_folder(file_path, order) IN
    IF IsSome(found) THEN Some(<<Unwrap(found), folders[Unwrap(found)]>>) ELSE NoneOpt

ResolveInit ==
    /\ \E S \in SUBSET ResolveFolders : r_folders = [f \in S |-> ResolveConfig(f)]
    /\ r_order \in Orders(DOMAIN r_folders)
    /\ r_path \in ResolvePaths
    /\ r_result = NoneOpt

Resolve ==
    /\ r_result = NoneOpt
    /\ r_result' = Some(ResolveCall(r_path, r_folders, r_order))
    /\ UNCHANGED <<r_folders, r_order, r_path>>

InitResolve == ResolveInit /\ WatcherInit /\ PipelineIdle /\ ArchiveIdle /\ ExtrasIdle

NextResolve == Resolve /\ UNCHANGED <<wvars, pvars, avars, xvars>>

SpecResolve == InitResolve /\ [][NextResolve]_vars

\* C4: resolve returns the registered folder that is a component-wise prefix
\* of the path and is the longest such folder, with the configuration
\* registered for it, whatever the iteration order; and it returns no match
\* exactly when no registered folder is a prefix of the path.
C4_LongestPrefixWins ==
    IsSome(r_result) =>
        LET result == Unwrap(r_result)
            prefixes == {f \in DOMAIN r_folders :
                            /\ Len(f) <= Len(r_path)
                            /\ \A i \in 1..Len(f) : f[i] = r_path[i]}
        IN /\ (result = NoneOpt) <=> (prefixes = {})
           /\ IsSome(result) =>
                /\ Unwrap(result)[1] \in prefixes
                /\ \A f \in prefixes : Len(f) <= Len(Unwrap(result)[1])
                /\ Unwrap(result)[2] = r_folders[Unwrap(result)[1]]

\* /a/b/c.pdf resolved over a registry holding /a and /a/b, /a/b iterated last
\* and first.
C4_Witness ==
    /\ IsSome(r_result)
    /\ r_path = <<DirA, DirB, FileC>>
    /\ {<<DirA>>, <<DirA, DirB>>} \subseteq DOMAIN r_folders
    /\ r_order[1] = <<DirA, DirB>>
    /\ Unwrap(Unwrap(r_result))[1] = <<DirA, DirB>>

(***************************************************************************)
(* Claims about the stabilization engine (checked under Spec).             *)
(***************************************************************************)
ScanStep == last_op'.op = "scan"

InRegisteredFolder(path) ==
    \E folder \in DOMAIN watched_folders : path_starts_with(path, folder)

C2_UnreadableStaysPending ==
    [][\A p \in DOMAIN pending_files :
        /\ (ScanStep /\ fs[p] # "readable")
           => /\ p \notin EventPaths(sent')
              /\ p \in DOMAIN pending_files'
              /\ pending_files'[p] = pending_files[p]
        /\ (ScanStep /\ p \in held_back /\ fs[p] = "readable" /\ InRegisteredFolder(p))
           => p \in EventPaths(sent')]_vars

\* A scan has just sent PathA, which an earlier scan had held back.
C2_Witness ==
    /\ last_op.op = "scan"
    /\ PathA \in released
    /\ PathA \in EventPaths(sent)
    /\ PathA \notin DOMAIN pending_files

\* The claim's description of a path that must never be promoted.
C3_Excluded(path) ==
    LET name == path[Len(path)]
        dots == {i \in 1..Len(name) : name[i] = "."}
        lower(str) == [i \in 1..Len(str) |->
                        IF \E k \in 1..26 : Upper[k] = str[i]
                        THEN Lower[CHOOSE k \in 1..26 : Upper[k] = str[i]]
                        ELSE str[i]]
        last == IF dots = {} THEN 0 ELSE CHOOSE i \in dots : \A j \in dots : j <= i
        ext == IF last <= 1 THEN <<"?">> ELSE SubSeq(name, last + 1, Len(name))
        tail(n) == IF Len(name) < n THEN <<>> ELSE SubSeq(name, Len(name) - n + 1, Len(name))
    IN \/ lower(ext) # <<"p","d","f">>
       \/ \E i \in 1..Len(path) :
            lower(path[i]) \in { <<"p","r","o","c","e","s","s","e","d">>,
                                 <<"o","r","i","g","i","n","a","l","s">> }
       \/ name[1] = "."
       \/ tail(4) = <<".","t","m","p">>
       \/ tail(5) = <<".","p","a","r","t">>

\* C3: no path that is not a PDF by extension (any letter case), that has a
\* component "processed" or "originals" (any letter case), or whose file name
\* starts with "." or ends with ".tmp" or ".part" is ever pending or sent.
C3_ExcludedNeverPromoted ==
    \A p \in (DOMAIN pending_files) \cup EventPaths(sent) : ~C3_Excluded(p)

\* The engine has just taken a modify notification that carries every
\* excluded path of the model, and holds only the accepted ones.
C3_Witness ==
    /\ last_op.op = "recv"
    /\ last_op.event.kind = "Modify"
    /\ \A p \in AllPaths : C3_Excluded(p) =>
          \E i \in DOMAIN last_op.event.paths : last_op.event.paths[i] = p
    /\ DOMAIN pending_files = {PathA, PathB}


(***************************************************************************)
(* SpecPipeline: one run of process_file_event, against every response the *)
(* API can give at each step.                                              *)
(***************************************************************************)
RunEvent == CHOOSE event \in RunEvents : TRUE

Finish(value) ==
    /\ run_result' = Some(value)
    /\ pc' = "done"

\* PdfDkClient::process_file: read the input, upload it, classify the answer.
Upload(resp) ==
    /\ pc = "upload"
    /\ IF ~input_present
       THEN /\ Finish(Err("Io"))
            /\ UNCHANGED <<up_resp, job_uuid>>
       ELSE /\ up_resp' = Some(resp)
            /\ IF UploadOutcome(resp).ok
               THEN /\ job_uuid' = Some(UploadOutcome(resp).value)
                    /\ pc' = "poll"
                    /\ UNCHANGED run_result
               ELSE /\ Finish(UploadOutcome(resp))
                    /\ UNCHANGED job_uuid
    /\ UNCHANGED <<input_present, attempts, polls, slept_secs, poll_log, last_poll,
                   downloads, down_resp, out_written, out_disk,
                   archive_err, job_trace>>

LogPoll(resp) ==
    IF polls = Len(poll_log) /\ Len(poll_log) < MaxPollLog
    THEN Append(poll_log, resp) ELSE <<>>

\* PdfDkClient::poll_job: one pass of the loop that sends a status request.
PollIter(resp) ==
    /\ pc = "poll"
    /\ ~PollLimitReached(attempts + 1)
    /\ attempts' = attempts + 1
    /\ polls' = polls + 1
    /\ poll_log' = LogPoll(resp)
    /\ last_poll' = Some(resp)
    /\ IF ~PollOutcome(resp).ok
       THEN /\ Finish(PollOutcome(resp))
            /\ UNCHANGED slept_secs
       ELSE IF PollOutcome(resp).value = "Completed"
       THEN /\ pc' = "download"
            /\ UNCHANGED <<run_result, slept_secs>>
       ELSE /\ slept_secs' = slept_secs + POLL_INTERVAL_SECS
            /\ UNCHANGED <<pc, run_result>>
    /\ UNCHANGED <<input_present, up_resp, job_uuid, downloads, down_resp, out_written,
                   out_disk,
                   archive_err, job_trace>>

\* PdfDkClient::poll_job: the pass that finds the attempt ceiling exceeded.
PollTimeout ==
    /\ pc = "poll"
    /\ PollLimitReached(attempts + 1)
    /\ attempts' = attempts + 1
    /\ Finish(Err("Timeout"))
    /\ UNCHANGED <<input_present, up_resp, job_uuid, polls, slept_secs, poll_log,
                   last_poll, downloads, down_resp, out_written, out_disk,
                   archive_err, job_trace>>

DownloadIo == {"ok", "bytes", "create_dir_all", "write", "metadata"}

\* fs::create_dir_all(parent) succeeded, and then fs::write(output_path, bytes).
DiskAfter(output_path, written) ==
    [dir |-> Some(parent(output_path)),
     file |-> IF written THEN Some(output_path) ELSE NoneOpt]

\* PdfDkClient::download_result
Download(resp, io) ==
    /\ pc = "download"
    /\ downloads' = downloads + 1
    /\ down_resp' = Some(resp)
    /\ LET output_path == get_output_path(RunEvent.path, RunEvent.tool_config) IN
       IF ~DownloadOutcome(resp).ok
       THEN /\ Finish(DownloadOutcome(resp))
            /\ UNCHANGED <<out_written, out_disk>>
       ELSE IF io = "bytes"
       THEN /\ Finish(Err("Network"))
            /\ UNCHANGED <<out_written, out_disk>>
       ELSE IF io = "create_dir_all"
       THEN /\ Finish(Err("Io"))
            /\ UNCHANGED <<out_written, out_disk>>
       ELSE IF io = "write"
       THEN /\ Finish(Err("Io"))
            /\ out_disk' = DiskAfter(output_path, FALSE)
            /\ UNCHANGED out_written
       ELSE IF io = "metadata"
       THEN /\ Finish(Err("Io"))
            /\ out_written' = TRUE
            /\ out_disk' = DiskAfter(output_path, TRUE)
       ELSE /\ pc' = "archive"
            /\ out_written' = TRUE
            /\ out_disk' = DiskAfter(output_path, TRUE)
            /\ UNCHANGED run_result
    /\ UNCHANGED <<input_present, up_resp, job_uuid, attempts, polls, slept_secs,
                   poll_log, last_poll, archive_err, job_trace>>

\* process_file_event, from move_to_originals to its return.
Archive(io) ==
    /\ pc = "archive"
    /\ LET moved == move_to_originals(RunEvent.path, archived + 1, originals_dir, clock, io)
       IN /\ originals_dir' = moved.dir
          /\ input_present' = ~moved.moved
          /\ archived' = IF moved.moved THEN archived + 1 ELSE archived
          /\ archive_err' = IF moved.result.ok THEN NoneOpt ELSE Some(io)
          /\ Finish(RunResult(RunEvent, moved.result))
    /\ UNCHANGED <<clock, up_resp, job_uuid, attempts, polls, slept_secs, poll_log,
                   last_poll, downloads, down_resp, out_written, out_disk,
                   job_trace>>

PipelineInit ==
    /\ pc = "upload"
    /\ input_present \in BOOLEAN
    /\ up_resp = NoneOpt
    /\ job_uuid = NoneOpt
    /\ attempts = 0
    /\ polls = 0
    /\ slept_secs = 0
    /\ poll_log = <<>>
    /\ last_poll = NoneOpt
    /\ downloads = 0
    /\ down_resp = NoneOpt
    /\ out_written = FALSE
    /\ out_disk = NoDisk
    /\ archive_err = NoneOpt
    /\ run_result = NoneOpt
    /\ job_trace = <<>>
    /\ originals_dir \in {<<>>, Put(<<>>, Unwrap(file_name(RunEvent.path)), 0)}
    /\ clock = 0
    /\ archived = 0

InitPipeline == PipelineInit /\ WatcherInit /\ ResolveIdle /\ ExtrasIdle

NextPipeline ==
    \/ /\ \/ \E resp \in UploadResponses : Upload(resp)
          \/ \E resp \in PollResponses : PollIter(resp)
          \/ PollTimeout
          \/ \E resp \in DownloadResponses, io \in DownloadIo : Download(resp, io)
       /\ UNCHANGED <<wvars, rvars, avars, xvars>>
    \/ /\ \E io \in ArchiveIo : Archive(io)
       /\ UNCHANGED <<wvars, rvars, xvars>>

SpecPipeline == InitPipeline /\ [][NextPipeline]_vars

\* process_file_event returned Err(kind).
RunFailedWith(kind) ==
    /\ IsSome(run_result)
    /\ ~Unwrap(run_result).ok
    /\ Unwrap(run_result).value = kind

\* C5 (as stated): a run on which every call succeeds takes its Job through
\* Pending, Uploading, Processing, Downloading, Completed, with progress
\* 10, 50, 80, 100 observed in that order.
C5_JobFollowsRun ==
    (pc = "done" /\ IsSome(run_result) /\ Unwrap(run_result).ok /\ archive_err = NoneOpt)
        => job_trace = << <<"Pending", NoneOpt>>,
                          <<"Uploading", Some(10)>>,
                          <<"Processing", Some(50)>>,
                          <<"Downloading", Some(80)>>,
                          <<"Completed", Some(100)>> >>

C6_Payload(resp) ==
    resp.transport = "ok" /\ resp.status # 401 /\ resp.body.parsed /\ resp.body.success

C6_Completed(resp) ==
    /\ C6_Payload(resp)
    /\ IsSome(resp.body.data)
    /\ to_lowercase(Unwrap(resp.body.data)) \in {completed, done}

C6_NonTerminal(resp) ==
    /\ C6_Payload(resp)
    /\ IsSome(resp.body.data) =>
            to_lowercase(Unwrap(resp.body.data)) \notin {completed, done, failed, error}

C6_PollSucceeded ==
    /\ pc \in {"download", "archive", "done"}
    /\ pc = "done" => downloads = 1

\* C6: poll_job returns successfully at the first status response that
\* normalizes to Completed when every earlier response was a successful payload
\* with a non-terminal status or without data: the requests sent number the
\* position of that response, none is sent after it, one poll interval was
\* slept between consecutive requests, and no failure is reported by polling.
C6_PollEndsAtFirstCompleted ==
    /\ \A i \in 1..Len(poll_log) :
         ( /\ C6_Completed(poll_log[i])
           /\ \A j \in 1..(i - 1) : C6_NonTerminal(poll_log[j]) )
         => /\ i = Len(poll_log)
            /\ polls = i
            /\ slept_secs = (i - 1) * POLL_INTERVAL_SECS
            /\ C6_PollSucceeded
    /\ (IsSome(last_poll) /\ C6_Completed(Unwrap(last_poll)))
         => /\ C6_PollSucceeded
            /\ polls = attempts
            /\ slept_secs = (polls - 1) * POLL_INTERVAL_SECS

C6_Witness ==
    /\ pc = "download"
    /\ polls = 4
    /\ Len(poll_log) = 4
    /\ \A i \in 1..4 : C6_Payload(poll_log[i]) /\ IsSome(poll_log[i].body.data)
    /\ [i \in 1..4 |-> to_lowercase(Unwrap(poll_log[i].body.data))]
         = <<queued, queued, processing, completed>>

\* C7: poll_job never sends more than 300 status requests; while it polls,
\* each pass sends one more; once 300 requests were answered without an end,
\* the next pass fails with Timeout without a request; and a run that failed
\* with Timeout sent exactly 300 status requests, no download request, and
\* wrote no output file.
C7_TimeoutAfter300 ==
    [][ /\ polls' <= 300
        /\ (pc = "poll" /\ pc' = "poll") => (polls' = polls + 1 /\ polls' = attempts')
        /\ (pc = "poll" /\ polls = 300) => RunFailedWith("Timeout")'
        /\ RunFailedWith("Timeout")'
             => /\ polls' = 300
                /\ downloads' = 0
                /\ ~out_written'
                /\ pc' = "done" ]_vars

C7_Witness ==
    /\ RunFailedWith("Timeout")
    /\ polls = 300
    /\ downloads = 0
    /\ ~out_written

C8_UploadFailed(kind) ==
    /\ job_uuid = NoneOpt
    /\ RunFailedWith(kind)
    /\ polls = 0

\* C8: an upload answered with 401 fails with Unauthorized, with 429 with
\* JobLimitExceeded, with 413 with FileTooLarge; with any other status that
\* is not a success, or an unparsable body, or a payload with success=false
\* or without job data, it fails with ServerError; a job handle comes back
\* exactly for a success status whose payload has success=true and job data,
\* and it is that payload's job identifier.
C8_UploadClassified ==
    (IsSome(up_resp) /\ Unwrap(up_resp).transport = "ok") =>
        LET resp == Unwrap(up_resp)
            has_handle == /\ resp.status \in 200..299
                          /\ resp.body.parsed
                          /\ resp.body.success
                          /\ IsSome(resp.body.data)
        IN /\ resp.status = 401 => C8_UploadFailed("Unauthorized")
           /\ resp.status = 429 => C8_UploadFailed("JobLimitExceeded")
           /\ resp.status = 413 => C8_UploadFailed("FileTooLarge")
           /\ (resp.status \notin {401, 429, 413} /\ ~has_handle)
                => C8_UploadFailed("ServerError")
           /\ IsSome(job_uuid) <=> has_handle
           /\ IsSome(job_uuid) => job_uuid = resp.body.data

C8_Witness ==
    /\ IsSome(up_resp)
    /\ Unwrap(up_resp).transport = "ok"
    /\ Unwrap(up_resp).status = 413
    /\ RunFailedWith("FileTooLarge")

\* C10: when move_to_originals fails, at creating Originals or at moving the
\* original, process_file_event still returns Ok with the output path, and
\* the downloaded output file stays written.
C10_ArchiveFailureKeepsSuccess ==
    IsSome(archive_err) =>
        /\ pc = "done"
        /\ IsSome(run_result)
        /\ Unwrap(run_result).ok
        /\ Unwrap(run_result).value =
                << DirW, <<"P","r","o","c","e","s","s","e","d">>,
                   <<"a","_","c","o","m","p","r","e","s","s",".","p","d","f">> >>
        /\ out_written
        /\ downloads = 1

C10_Witness ==
    /\ archive_err = Some("rename")
    /\ IsSome(run_result)
    /\ Unwrap(run_result).ok
    /\ out_written
    /\ input_present

C14_UploadSucceeded ==
    /\ IsSome(up_resp)
    /\ Unwrap(up_resp).transport = "ok"
    /\ Unwrap(up_resp).status \in 200..299
    /\ Unwrap(up_resp).body.parsed
    /\ Unwrap(up_resp).body.success
    /\ IsSome(Unwrap(up_resp).body.data)

C14_DownloadSucceeded ==
    /\ IsSome(down_resp)
    /\ Unwrap(down_resp).transport = "ok"
    /\ Unwrap(down_resp).status \in 200..299
    /\ out_written

C14_ArchiveAttempted == archived > 0 \/ IsSome(archive_err)

\* C14: a run goes through upload, poll, download, archive in this order and
\* never back; polling starts only after the upload gave a job handle,
\* the download only after a status response that is Completed, the archive
\* only after a download that succeeded; and a run that ended with an error
\* performed none of the steps after the failed one: no status request after a
\* failed upload, no download request after failed polling, no archive after
\* any error.
C14_StepsInOrder ==
    [][ /\ <<pc, pc'>> \in { <<"upload", "poll">>, <<"upload", "done">>,
                             <<"poll", "poll">>, <<"poll", "download">>, <<"poll", "done">>,
                             <<"download", "archive">>, <<"download", "done">>,
                             <<"archive", "done">> }
        /\ pc = "upload" => (polls' = 0 /\ downloads' = 0 /\ ~C14_ArchiveAttempted')
        /\ pc = "poll" => (C14_UploadSucceeded /\ downloads' = 0 /\ ~C14_ArchiveAttempted')
        /\ pc = "download" =>
              (C14_UploadSucceeded /\ C6_Completed(Unwrap(last_poll)) /\ polls' = polls
               /\ ~C14_ArchiveAttempted')
        /\ pc = "archive" => (C14_DownloadSucceeded /\ polls' = polls /\ downloads' = 1)
        /\ (IsSome(run_result') /\ ~Unwrap(run_result').ok) =>
              (/\ pc # "archive"
               /\ pc' = "done"
               /\ ~C14_ArchiveAttempted'
               /\ input_present' = input_present) ]_vars

C14_Witness ==
    /\ pc = "done"
    /\ RunFailedWith("ServerError")
    /\ polls = 2
    /\ downloads = 1
    /\ IsSome(down_resp)
    /\ ~C14_ArchiveAttempted
    /\ input_present

(***************************************************************************)
(* SpecArchive: originals archived one after another into one Originals    *)
(* folder, while the clock advances.                                       *)
(***************************************************************************)
MaxArchives == 4
MaxClock == 1

PathA1 == <<DirW, <<"a","_","1",".","p","d","f">> >>
ArchivePaths == {PathA, PathA1}

\* move_to_originals(file_path), for a new original at file_path.
ArchiveOne(file_path, io) ==
    /\ archived < MaxArchives
    /\ LET moved == move_to_originals(file_path, archived + 1, originals_dir, clock, io)
       IN /\ originals_dir' = moved.dir
          /\ archived' = archived + 1
    /\ UNCHANGED clock

\* A second passes.
ClockTick ==
    /\ clock < MaxClock
    /\ clock' = clock + 1
    /\ UNCHANGED <<originals_dir, archived>>

InitArchive == ArchiveIdle /\ PipelineIdle /\ WatcherInit /\ ResolveIdle /\ ExtrasIdle

NextArchive ==
    /\ \/ \E file_path \in ArchivePaths, io \in ArchiveIo : ArchiveOne(file_path, io)
       \/ ClockTick
    /\ UNCHANGED <<wvars, rvars, pvars, xvars>>

SpecArchive == InitArchive /\ [][NextArchive]_vars

\* C9 (as stated): archiving an original never overwrites a file already in
\* Originals: every file there stays, with its content, through every
\* archive operation.
C9_NeverOverwrites ==
    [][ \A name \in DOMAIN originals_dir :
            /\ name \in DOMAIN originals_dir'
            /\ originals_dir'[name] = originals_dir[name] ]_vars

(***************************************************************************)
(* SpecConsumer: the broadcast channel between check_pending_files and the *)
(* consumer task spawned with the watcher (lib.rs), which runs             *)
(* process_file_event for one FileEvent at a time.                         *)
(***************************************************************************)
MaxEmitted == 130

\* usize::next_power_of_two
RECURSIVE PowerOfTwoFrom(_, _)
PowerOfTwoFrom(n, p) == IF p >= n THEN p ELSE PowerOfTwoFrom(n, 2 * p)
next_power_of_two(n) == PowerOfTwoFrom(n, 1)

\* broadcast::channel(100) retains at least 100 values; tokio sizes the
\* buffer to the next power of two.
BufferCaps == {BROADCAST_CAPACITY, next_power_of_two(BROADCAST_CAPACITY)}

\* Mutant of Retained: the channel never overwrites a value.
RetainedAll(seq) == TRUE

\* The value with this sequence number is still in the channel's buffer.
Retained(seq) == seq > tx_count - buffer_cap

\* check_pending_files: event_sender.send(file_event).  It never waits; with
\* no receiver left it returns Err and the event is only logged.
Emit ==
    /\ tx_count < MaxEmitted
    /\ IF consumer = "ended"
       THEN /\ send_failed' = TRUE
            /\ UNCHANGED tx_count
       ELSE /\ tx_count' = tx_count + 1
            /\ UNCHANGED send_failed
    /\ UNCHANGED <<buffer_cap, rx_next, consumer, last_outcome, consumed, consumed_twice>>

\* `while let Ok(event) = rx.recv().await`: the receiver takes its next value
\* and the loop body starts process_file_event; if that value was overwritten
\* recv returns Err(Lagged) and the loop ends.
ConsumerRecv ==
    /\ consumer = "recv"
    /\ rx_next <= tx_count
    /\ IF Retained(rx_next)
       THEN /\ consumer' = "run"
            /\ consumed' = consumed \cup {rx_next}
            /\ consumed_twice' = (consumed_twice \/ rx_next \in consumed)
            /\ rx_next' = rx_next + 1
       ELSE /\ consumer' = "ended"
            /\ UNCHANGED <<consumed, consumed_twice, rx_next>>
    /\ UNCHANGED <<buffer_cap, tx_count, last_outcome, send_failed>>

\* process_file_event returns; the loop body logs Ok or Err and loops.
RunEnds(outcome) ==
    /\ consumer = "run"
    /\ consumer' = "recv"
    /\ last_outcome' = outcome
    /\ UNCHANGED <<buffer_cap, tx_count, rx_next, consumed, consumed_twice, send_failed>>

InitConsumer ==
    /\ buffer_cap \in BufferCaps
    /\ tx_count = 0
    /\ rx_next = 1
    /\ consumer = "recv"
    /\ last_outcome = "none"
    /\ consumed = {}
    /\ consumed_twice = FALSE
    /\ send_failed = FALSE
    /\ WatcherInit /\ ResolveIdle /\ PipelineIdle /\ ArchiveIdle /\ JobIdle /\ RegistryIdle
    /\ MoreIdle

NextConsumer ==
    /\ \/ Emit
       \/ ConsumerRecv
       \/ \E outcome \in {"ok", "err"} : RunEnds(outcome)
    /\ UNCHANGED <<wvars, rvars, pvars, avars, jvars, gvars, yvars>>

SpecConsumer == InitConsumer /\ [][NextConsumer]_vars

\* C11 (as stated): while the run for one FileEvent is suspended, the run for
\* another FileEvent already sent can start.
C11_RunsOverlap ==
    (consumer = "run" /\ rx_next <= tx_count /\ Retained(rx_next))
        => ENABLED ConsumerRecv

\* C12 (as stated): after a run that ended with an error the consumer loop
\* goes on, and every FileEvent sent during or after that run is still
\* received: none of them is gone from the channel.
C12_FailedRunLosesNothing ==
    last_outcome = "err" =>
        /\ consumer # "ended"
        /\ \A seq \in rx_next..tx_count : Retained(seq)

\* C13 (as stated): every FileEvent sent is handed to exactly one run: none
\* to two runs, and none is lost before a run took it.
C13_ConsumedExactlyOnce ==
    /\ ~consumed_twice
    /\ ~send_failed
    /\ \A seq \in 1..tx_count :
          \/ seq \in consumed
          \/ consumer # "ended" /\ seq >= rx_next /\ Retained(seq)

(***************************************************************************)
(* SpecJob: one processor::Job, its setters called in any order.           *)
(***************************************************************************)
MaxJobCalls == 4

JobOutputs == {"out-1", "out-2"}
JobErrors == {"error-1", "error-2"}

\* Job::new
JobNew ==
    /\ the_job = NoneOpt
    /\ the_job' = Some(Job_new)
    /\ UNCHANGED <<job_calls, job_was, clock>>

\* One setter call on the Job.
JobCall(after) ==
    /\ IsSome(the_job)
    /\ job_calls < MaxJobCalls
    /\ the_job' = Some(after)
    /\ job_calls' = job_calls + 1
    /\ UNCHANGED clock

SetUploading == JobCall(set_uploading(Unwrap(the_job))) /\ UNCHANGED job_was
SetProcessing == JobCall(set_processing(Unwrap(the_job))) /\ UNCHANGED job_was
SetDownloading == JobCall(set_downloading(Unwrap(the_job))) /\ UNCHANGED job_was

SetCompleted(output_file) ==
    /\ JobCall(set_completed(Unwrap(the_job), output_file, clock))
    /\ UNCHANGED job_was

SetFailed(message) ==
    /\ JobCall(set_failed(Unwrap(the_job), message, clock))
    /\ job_was' = job_was \cup {Unwrap(the_job).status}

\* A second passes.
JobClockTick ==
    /\ clock < MaxClock
    /\ clock' = clock + 1
    /\ UNCHANGED jvars

InitJob ==
    /\ JobIdle
    /\ WatcherInit /\ ResolveIdle /\ PipelineIdle /\ ArchiveIdle
    /\ ConsumerIdle /\ RegistryIdle /\ MoreIdle

NextJob ==
    /\ \/ JobNew
       \/ SetUploading
       \/ SetProcessing
       \/ SetDownloading
       \/ \E output_file \in JobOutputs : SetCompleted(output_file)
       \/ \E message \in JobErrors : SetFailed(message)
       \/ JobClockTick
    /\ UNCHANGED <<wvars, rvars, pvars, originals_dir, archived, cvars, gvars, yvars>>

SpecJob == InitJob /\ [][NextJob]_vars

\* C15 (as stated): a Job whose status is Completed or Failed keeps that
\* status through every later operation on it.
C15_TerminalStays ==
    [][ (IsSome(the_job) /\ Unwrap(the_job).status \in {"Completed", "Failed"})
            => Unwrap(the_job').status = Unwrap(the_job).status ]_vars

\* C16 (as stated): the pending set is scanned every 500 ms whatever the
\* notification traffic, so a pending path that has been stable for 2 s,
\* whose file is readable and which a registered folder contains, is
\* promoted: it cannot stay pending for ever while no 500 ms sleep of the
\* loop ever runs to its end.
C16_StablePathPromoted ==
    []<>~( /\ PathA \in DOMAIN pending_files
           /\ pending_files[PathA] >= DebounceQ
           /\ fs[PathA] = "readable"
           /\ InRegisteredFolder(PathA)
           /\ sleep_elapsed < ScanQ )

\* The step takes a create/modify notification that carries the path.
AcceptedStep(path) ==
    /\ last_op'.op = "recv"
    /\ last_op'.event.kind \in {"Create", "Modify"}
    /\ \E i \in DOMAIN last_op'.event.paths : last_op'.event.paths[i] = path

\* C17: an accepted notification for a path sets its pending entry to the
\* current time, whether the path was pending or not, so the entry always
\* holds the time of the most recent accepted notification for the path; no
\* scan sends a path for which less than 2 s have passed since that
\* notification; and the path has one pending entry.
C17_TimestampOverwritten ==
    [][ \A p \in TrackedPaths :
          /\ AcceptedStep(p)
                => /\ p \in DOMAIN pending_files'
                   /\ pending_files'[p] = 0
                   /\ DOMAIN pending_files \subseteq DOMAIN pending_files'
          /\ p \in DOMAIN pending_files' => pending_files'[p] = quiet'[p]
          /\ (ScanStep /\ p \in EventPaths(sent'))
                => /\ quiet[p] >= DebounceQ
                   /\ p \in DOMAIN pending_files
                   /\ pending_files[p] >= DebounceQ ]_vars

\* A second notification of a burst has just reset PathA's pending entry.
C17_Witness ==
    /\ last_op.op = "recv"
    /\ last_op.event.kind = "Modify"
    /\ burst_notifs[PathA] = 2
    /\ PathA \in DOMAIN pending_files
    /\ pending_files[PathA] = 0
    /\ burst_emits[PathA] = 0

\* C18: a scan that finds a pending path stable and readable removes it from
\* the pending set also when no registered folder contains it, and then
\* sends no FileEvent for it; a path is sent only by a scan before which it
\* was pending, and it becomes pending only by an accepted notification, so
\* a path dropped this way is not sent later without a new notification,
\* also when a folder that contains it is registered afterwards.
C18_NoFolderDrops ==
    [][ \A p \in TrackedPaths :
          /\ ( /\ ScanStep
               /\ p \in DOMAIN pending_files
               /\ pending_files[p] >= DebounceQ
               /\ fs[p] = "readable"
               /\ ~InRegisteredFolder(p) )
                => /\ p \notin DOMAIN pending_files'
                   /\ p \notin EventPaths(sent')
                   /\ burst_emits'[p] = burst_emits[p]
          /\ (p \in EventPaths(sent') /\ sent' # sent)
                => (ScanStep /\ p \in DOMAIN pending_files /\ InRegisteredFolder(p))
          /\ (p \notin DOMAIN pending_files /\ p \in DOMAIN pending_files')
                => AcceptedStep(p) ]_vars

\* PathA was dropped by a scan for want of a folder, a folder containing it
\* was registered afterwards, and a later scan has sent nothing.
C18_Witness ==
    /\ last_op.op = "scan"
    /\ burst_notifs[PathA] >= 1
    /\ burst_emits[PathA] = 0
    /\ PathA \notin DOMAIN pending_files
    /\ InRegisteredFolder(PathA)
    /\ fs[PathA] = "readable"
    /\ sent = {}

(***************************************************************************)
(* SpecRegistry: FolderWatcher::add_folder and remove_folder against the   *)
(* disk and the OS watcher, with the outcome of every I/O call chosen by   *)
(* the environment.                                                        *)
(***************************************************************************)
\* The tool configurations handed to add_folder: those of the engine and a
\* second enabled tool on the folder /w.
RegistryConfigs ==
    ToolConfigs \cup {ToolConfig("outline", TRUE, Some(FolderW), <<"SameFolder">>)}

\* What create_dir_all and watch can do in one add_folder call.
AddIo == {"ok", "create_dir_fails", "watch_fails"}

\* What unwatch returns for a path the OS watcher does not watch: the notify
\* back ends differ (WatchNotFound on inotify, FSEvents and kqueue).
UnwatchUnknown == {"Ok", "WatchNotFound"}

\* The state add_folder and remove_folder read and write.
RegistryState(dirs, watches, registry) ==
    [dirs |-> dirs, watches |-> watches, registry |-> registry]

\* A call's return value together with the state it leaves.
CallOutcome(result, dirs, watches, registry) ==
    [result |-> result, state |-> RegistryState(dirs, watches, registry)]

\* The "Processed" subfolder of a watched folder.
ProcessedOf(folder) == join(folder, <<"P","r","o","c","e","s","s","e","d">>)

\* The directories of the model: the folders and their "Processed" subfolders.
RegistryDirs == Folders \cup {ProcessedOf(folder) : folder \in Folders}

\* create_dir_all(folder): the folder and every missing ancestor.
create_dir_all(dirs, folder) ==
    dirs \cup {d \in RegistryDirs : path_starts_with(folder, d)}

\* What the two create_dir_all calls of AppConfig::enable_tool can do.
EnableIo == {"ok", "create_dir_fails", "create_processed_fails"}

\* AppConfig::enable_tool, as far as the disk goes: the folder, then its
\* "Processed" subfolder, each created when it does not exist.
AppConfig_enable_tool(dirs, folder_path, io) ==
    IF io = "create_dir_fails" /\ folder_path \notin dirs
    THEN [result |-> Err("Io"), dirs |-> dirs]
    ELSE LET with_folder == create_dir_all(dirs, folder_path) IN
         IF io = "create_processed_fails" /\ ProcessedOf(folder_path) \notin dirs
         THEN [result |-> Err("Io"), dirs |-> with_folder]
         ELSE [result |-> Ok("unit"),
               dirs |-> create_dir_all(with_folder, ProcessedOf(folder_path))]

\* Mutant of FolderWatcher_add_folder: the enabled flag is not looked at.
FolderWatcher_add_folder_any(st, tool_config, io) ==
    IF ~IsSome(tool_config.folder_path)
    THEN CallOutcome(Ok("unit"), st.dirs, st.watches, st.registry)
    ELSE LET folder_path == Unwrap(tool_config.folder_path)
             dirs == create_dir_all(st.dirs, folder_path)
         IN  IF io = "create_dir_fails" /\ folder_path \notin st.dirs
             THEN CallOutcome(Err("Io"), st.dirs, st.watches, st.registry)
             ELSE IF io = "watch_fails"
             THEN CallOutcome(Err("Notify"), dirs, st.watches, st.registry)
             ELSE CallOutcome(Ok("unit"), dirs, st.watches \cup {folder_path},
                              Put(st.registry, folder_path, tool_config))

\* FolderWatcher::add_folder
FolderWatcher_add_folder(st, tool_config, io) ==
    IF ~IsSome(tool_config.folder_path)
    THEN CallOutcome(Ok("unit"), st.dirs, st.watches, st.registry)
    ELSE IF ~tool_config.enabled
    THEN CallOutcome(Ok("unit"), st.dirs, st.watches, st.registry)
    ELSE LET folder_path == Unwrap(tool_config.folder_path)
             dirs == create_dir_all(st.dirs, folder_path)
         IN  IF io = "create_dir_fails" /\ folder_path \notin st.dirs
             THEN CallOutcome(Err("Io"), st.dirs, st.watches, st.registry)
             ELSE IF io = "watch_fails"
             THEN CallOutcome(Err("Notify"), dirs, st.watches, st.registry)
             ELSE CallOutcome(Ok("unit"), dirs, st.watches \cup {folder_path},
                              Put(st.registry, folder_path, tool_config))

\* self.watcher.unwatch(folder_path)
unwatch(watches, folder_path, unwatched) ==
    IF folder_path \in watches THEN Ok("unit")
    ELSE IF unwatched = "Ok" THEN Ok("unit")
    ELSE Err("WatchNotFound")

\* FolderWatcher::remove_folder: unwatch(folder_path)? comes first, and the
\* registry entry is removed only after it succeeded.
FolderWatcher_remove_folder(st, folder_path, unwatched) ==
    IF ~unwatch(st.watches, folder_path, unwatched).ok
    THEN CallOutcome(Err("WatchNotFound"), st.dirs, st.watches, st.registry)
    ELSE CallOutcome(Ok("unit"), st.dirs, st.watches \ {folder_path},
                     Restrict(st.registry, DOMAIN st.registry \ {folder_path}))

RegistryNow == RegistryState(g_dirs, g_watches, g_registry)

\* One call's outcome written back.
RegistryApply(call, outcome) ==
    /\ g_call' = Some(call)
    /\ g_result' = Some(outcome.result)
    /\ g_dirs' = outcome.state.dirs
    /\ g_watches' = outcome.state.watches
    /\ g_registry' = outcome.state.registry

\* watcher.add_folder(tool_config).await
AddFolderCall(tool_config, io) ==
    RegistryApply([op |-> "add", tool_config |-> tool_config],
                  FolderWatcher_add_folder(RegistryNow, tool_config, io))

\* watcher.remove_folder(&path).await
RemoveFolderCall(folder_path, unwatched) ==
    RegistryApply([op |-> "remove", folder_path |-> folder_path],
                  FolderWatcher_remove_folder(RegistryNow, folder_path, unwatched))

\* disable_tool's last step: remove_folder for the tool's folder, its result
\* discarded (let _ =); the command returns Ok(()).
DisableToolCall(tool_config, unwatched) ==
    LET outcome ==
            IF IsSome(tool_config.folder_path)
            THEN FolderWatcher_remove_folder(RegistryNow,
                                             Unwrap(tool_config.folder_path), unwatched)
            ELSE CallOutcome(Ok("unit"), g_dirs, g_watches, g_registry)
    IN  RegistryApply([op |-> "disable_tool", tool_config |-> tool_config],
                      [outcome EXCEPT !.result = Ok("unit")])

\* The enable_tool command: config.enable_tool(..)?, then
\* watcher.add_folder(tc) for the tool's configuration, now enabled.
EnableToolCall(tool_config, cfg_io, io) ==
    /\ tool_config.enabled /\ IsSome(tool_config.folder_path)
    /\ LET cfg == AppConfig_enable_tool(g_dirs, Unwrap(tool_config.folder_path), cfg_io)
           call == [op |-> "enable_tool", tool_config |-> tool_config]
       IN  IF ~cfg.result.ok
           THEN RegistryApply(call, CallOutcome(cfg.result, cfg.dirs, g_watches, g_registry))
           ELSE RegistryApply(call,
                    FolderWatcher_add_folder(
                        RegistryState(cfg.dirs, g_watches, g_registry), tool_config, io))

\* The user deletes a watched directory: it and what lies below it are gone
\* from the disk, and the OS drops the watches on them.
DirRemoved(folder) ==
    /\ folder \in g_dirs
    /\ g_dirs' = {d \in g_dirs : ~path_starts_with(d, folder)}
    /\ g_watches' = {d \in g_watches : ~path_starts_with(d, folder)}
    /\ g_call' = Some([op |-> "dir_removed", folder_path |-> folder])
    /\ g_result' = NoneOpt
    /\ UNCHANGED g_registry

InitRegistry ==
    /\ RegistryIdle
    /\ WatcherInit /\ ResolveIdle /\ PipelineIdle /\ ArchiveIdle
    /\ ConsumerIdle /\ JobIdle /\ MoreIdle

NextRegistry ==
    /\ \/ \E tool_config \in RegistryConfigs, io \in AddIo :
             AddFolderCall(tool_config, io)
       \/ \E folder_path \in Folders, unwatched \in UnwatchUnknown :
             RemoveFolderCall(folder_path, unwatched)
       \/ \E tool_config \in RegistryConfigs, unwatched \in UnwatchUnknown :
             DisableToolCall(tool_config, unwatched)
       \/ \E tool_config \in RegistryConfigs, cfg_io \in EnableIo, io \in AddIo :
             EnableToolCall(tool_config, cfg_io, io)
       \/ \E folder \in RegistryDirs : DirRemoved(folder)
    /\ UNCHANGED <<wvars, rvars, pvars, avars, cvars, jvars, yvars>>

SpecRegistry == InitRegistry /\ [][NextRegistry]_vars

\* The step is a call of the given kind.
RegistryStep(op) == IsSome(g_call') /\ Unwrap(g_call').op = op

\* C19: remove_folder for a folder that is not registered returns Ok and
\* leaves the registry and the other watches as they were; for a registered
\* folder it leaves the registry without an entry for that folder.
C19_RemoveAlwaysUnregisters ==
    [][ RegistryStep("remove") =>
          LET folder_path == Unwrap(g_call').folder_path
          IN  /\ folder_path \notin DOMAIN g_registry
                    => /\ Unwrap(g_result').ok
                       /\ g_registry' = g_registry
                       /\ g_watches' \ {folder_path} = g_watches \ {folder_path}
              /\ folder_path \in DOMAIN g_registry
                    => folder_path \notin DOMAIN g_registry' ]_vars

\* C20: add_folder for a tool that is disabled or has no folder returns Ok
\* and leaves the disk, the OS watches and the registry as they were.
C20_DisabledAddChangesNothing ==
    [][ RegistryStep("add") =>
          LET tool_config == Unwrap(g_call').tool_config
          IN  (~tool_config.enabled \/ ~IsSome(tool_config.folder_path))
                  => /\ Unwrap(g_result').ok
                     /\ g_dirs' = g_dirs
                     /\ g_watches' = g_watches
                     /\ g_registry' = g_registry ]_vars

\* add_folder was called for the disabled tool whose folder /w is neither on
\* disk nor watched nor registered, while the folder /w/sub is registered.
C20_Witness ==
    /\ IsSome(g_call) /\ Unwrap(g_call).op = "add"
    /\ ~Unwrap(g_call).tool_config.enabled
    /\ Unwrap(g_call).tool_config.folder_path = Some(FolderW)
    /\ Unwrap(g_result).ok
    /\ FolderW \notin g_dirs
    /\ FolderW \notin g_watches
    /\ FolderW \notin DOMAIN g_registry
    /\ FolderSub \in DOMAIN g_registry

\* C21: an add_folder call that succeeds for an enabled tool whose folder is
\* not on disk leaves the folder and its "Processed" subfolder on disk, the
\* folder watched, and the registry with the call's configuration as the
\* entry for the folder.
C21_AddCreatesProcessed ==
    [][ RegistryStep("add") =>
          LET tool_config == Unwrap(g_call').tool_config
          IN  ( /\ tool_config.enabled
                /\ IsSome(tool_config.folder_path)
                /\ Unwrap(tool_config.folder_path) \notin g_dirs
                /\ Unwrap(g_result').ok )
                  => LET folder_path == Unwrap(tool_config.folder_path)
                     IN  /\ folder_path \in g_dirs'
                         /\ ProcessedOf(folder_path) \in g_dirs'
                         /\ folder_path \in g_watches'
                         /\ folder_path \in DOMAIN g_registry'
                         /\ g_registry'[folder_path] = tool_config ]_vars

(***************************************************************************)
(* SpecScan: check_pending_files resolving its ready files one by one      *)
(* while add_folder and remove_folder ask for the registry's write lock.   *)
(***************************************************************************)
\* The ready_files vectors of a scan: the PDFs of the model in any order.
ReadyVectors ==
    {<<>>, <<PathA>>, <<PathB>>, <<PathA, PathB>>, <<PathB, PathA>>}

\* The writes add_folder and remove_folder make under the write guard.
RegistryWrites ==
    {[op |-> "insert", folder_path |-> Unwrap(tc.folder_path), tool_config |-> tc] :
        tc \in {c \in RegistryConfigs : c.enabled /\ IsSome(c.folder_path)}}
    \cup {[op |-> "remove", folder_path |-> f, tool_config |-> NoneOpt] : f \in Folders}

\* Mutant of WriteGranted: the write goes ahead while a read guard is held.
WriteGrantedAlways(scan_pc) == TRUE

\* RwLock::write().await returns only while no read guard is held.
WriteGranted(scan_pc) == scan_pc = "idle"

\* RwLock::read().await returns only while no writer holds or awaits the lock.
ReadGranted(writer) == writer = NoneOpt

\* folders.insert(folder_path, tool_config) / folders.remove(folder_path)
ApplyWrite(registry, write) ==
    IF write.op = "insert"
    THEN Put(registry, write.folder_path, write.tool_config)
    ELSE Restrict(registry, DOMAIN registry \ {write.folder_path})

\* The body of check_pending_files' second loop for one path, against the
\* registry behind the guard: the FileEvent sent, if a folder resolves.
ResolveOne(path, registry) ==
    LET order == CHOOSE o \in Orders(DOMAIN registry) : TRUE
        found == find_watched_folder(path, order)
    IN  IF IsSome(found)
        THEN Some(FileEvent(path, registry[Unwrap(found)]))
        ELSE NoneOpt

\* check_pending_files: ready_files is built, then watched_folders.read().await.
ScanBegin(ready) ==
    /\ s_pc = "idle"
    /\ ReadGranted(s_writer)
    /\ s_pc' = "loop"
    /\ s_ready' = ready
    /\ s_snapshot' = s_registry
    /\ s_events' = <<>>
    /\ UNCHANGED <<s_registry, s_writer>>

\* One iteration of `for path in ready_files`.
ScanResolve ==
    /\ s_pc = "loop"
    /\ s_ready # <<>>
    /\ s_events' = Append(s_events, [path |-> Head(s_ready),
                                     event |-> ResolveOne(Head(s_ready), s_registry)])
    /\ s_ready' = Tail(s_ready)
    /\ UNCHANGED <<s_registry, s_pc, s_snapshot, s_writer>>

\* The function returns and the read guard is dropped.
ScanEnd ==
    /\ s_pc = "loop"
    /\ s_ready = <<>>
    /\ s_pc' = "idle"
    /\ UNCHANGED <<s_registry, s_ready, s_snapshot, s_events, s_writer>>

\* add_folder / remove_folder reaches watched_folders.write().await.
WriterArrives(write) ==
    /\ s_writer = NoneOpt
    /\ s_writer' = Some(write)
    /\ UNCHANGED <<s_registry, s_pc, s_ready, s_snapshot, s_events>>

\* The write guard is granted, the map is changed and the guard dropped.
WriterWrites ==
    /\ IsSome(s_writer)
    /\ WriteGranted(s_pc)
    /\ s_registry' = ApplyWrite(s_registry, Unwrap(s_writer))
    /\ s_writer' = NoneOpt
    /\ UNCHANGED <<s_pc, s_ready, s_snapshot, s_events>>

InitScan ==
    /\ ScanIdle /\ CallbackIdle /\ OutputIdle /\ StopIdle /\ LaterIdle
    /\ WatcherInit /\ ResolveIdle /\ PipelineIdle /\ ArchiveIdle
    /\ ConsumerIdle /\ JobIdle /\ RegistryIdle

NextScan ==
    /\ \/ \E ready \in ReadyVectors : ScanBegin(ready)
       \/ ScanResolve
       \/ ScanEnd
       \/ \E write \in RegistryWrites : WriterArrives(write)
       \/ WriterWrites
    /\ UNCHANGED <<wvars, rvars, pvars, avars, cvars, jvars, gvars, nvars, ovars, tvars, zvars>>

SpecScan == InitScan /\ [][NextScan]_vars

\* C22: every path a scan has resolved was resolved against the registry as
\* it was when the scan took its read guard: a FileEvent carries the tool
\* identifier and the configuration of one entry of that registry, the entry
\* of the longest registered folder containing the path, and no FileEvent
\* was sent only if that registry had no folder containing the path.
C22_ScanSeesOneRegistry ==
    \A i \in DOMAIN s_events :
        LET path == s_events[i].path
            event == s_events[i].event
            containing == {f \in DOMAIN s_snapshot : path_starts_with(path, f)}
        IN  IF IsSome(event)
            THEN /\ Unwrap(event).path = path
                 /\ Unwrap(event).tool_id = Unwrap(event).tool_config.id
                 /\ \E f \in containing :
                       /\ s_snapshot[f] = Unwrap(event).tool_config
                       /\ \A g \in containing : os_str_len(g) <= os_str_len(f)
            ELSE containing = {}

\* A scan has sent the FileEvent of its first path and has its second path
\* still to resolve while a remove_folder for the folder of the second path
\* waits for the write lock.
C22_Witness ==
    /\ s_pc = "loop"
    /\ Len(s_events) = 1
    /\ IsSome(s_events[1].event)
    /\ s_ready = <<PathB>>
    /\ FolderSub \in DOMAIN s_registry
    /\ IsSome(s_writer)
    /\ Unwrap(s_writer).op = "remove"
    /\ Unwrap(s_writer).folder_path = FolderSub

\* The FileEvents sent, not yet taken by the receiver and still in the buffer.
Buffered == Cardinality({seq \in rx_next..tx_count : Retained(seq)})

\* C23 as stated: event_sender.send can always go ahead, whatever the
\* consumer task is doing, and at most 100 sent and not yet received
\* FileEvents are held for the receiver.
C23_AtMost100Buffered ==
    /\ tx_count < MaxEmitted => ENABLED Emit
    /\ Buffered <= BROADCAST_CAPACITY

\* C23 as amended: event_sender.send can always go ahead, whatever the
\* consumer task is doing, and at most 128 (100 rounded up to the next power
\* of two) sent and not yet received FileEvents are held for the receiver.
C23_SendNeverWaits ==
    /\ tx_count < MaxEmitted => ENABLED Emit
    /\ Buffered <= next_power_of_two(BROADCAST_CAPACITY)

\* A run is in progress, the buffer is full and a FileEvent sent during the
\* run has already been overwritten.
C23_Witness ==
    /\ consumer = "run"
    /\ Buffered = next_power_of_two(BROADCAST_CAPACITY)
    /\ tx_count - rx_next + 1 > buffer_cap

(***************************************************************************)
(* SpecCallback: the closure given to RecommendedWatcher::new, run by the  *)
(* OS notification thread, and the mpsc channel it sends into.             *)
(***************************************************************************)
NOTIFY_CAPACITY == 100

\* notify_tx.blocking_send(event): the event is queued when the channel has
\* room; with the channel full the calling thread waits for room.
CallbackFires ==
    /\ n_callback = "idle"
    /\ IF n_queue < NOTIFY_CAPACITY
       THEN /\ n_queue' = n_queue + 1
            /\ UNCHANGED n_callback
       ELSE /\ n_callback' = "blocked"
            /\ UNCHANGED n_queue

\* process_events: rx.recv() takes one notification.
EngineRecv ==
    /\ n_queue > 0
    /\ n_queue' = n_queue - 1
    /\ UNCHANGED n_callback

\* Room has been made: the waiting blocking_send queues its event and the
\* callback returns.
BlockedSendCompletes ==
    /\ n_callback = "blocked"
    /\ n_queue < NOTIFY_CAPACITY
    /\ n_queue' = n_queue + 1
    /\ n_callback' = "idle"

InitCallback ==
    /\ CallbackIdle /\ ScanIdle /\ OutputIdle /\ StopIdle /\ LaterIdle
    /\ WatcherInit /\ ResolveIdle /\ PipelineIdle /\ ArchiveIdle
    /\ ConsumerIdle /\ JobIdle /\ RegistryIdle

NextCallback ==
    /\ \/ CallbackFires
       \/ EngineRecv
       \/ BlockedSendCompletes
    /\ UNCHANGED <<wvars, rvars, pvars, avars, cvars, jvars, gvars, svars, ovars, tvars, zvars>>

SpecCallback == InitCallback /\ [][NextCallback]_vars

\* C24: the OS notification thread is never left waiting inside the
\* callback, also when the channel already holds 100 notifications.
C24_CallbackNeverBlocks == n_callback # "blocked"

\* The response is a parsed body reporting failure (success = false) under a
\* status other than 401.
C25_FailureBody(resp) ==
    resp.transport = "ok" /\ resp.status # 401 /\ resp.body.parsed /\ ~resp.body.success

\* The text of a failure body, its error or else its message, names an
\* authorization problem.
C25_AuthText(resp) ==
    LET msg == IF IsSome(resp.body.error) THEN resp.body.error ELSE resp.body.message
    IN  IsSome(msg) /\ contains(to_lowercase(Unwrap(msg)), unauthorized)

\* C25: when the latest poll response has HTTP status 401 the run has ended
\* with Unauthorized; when it is a body reporting failure the run has ended
\* with Unauthorized if the text names an authorization problem, also under
\* status 200, and with ServerError if not; in each case that poll was the
\* last request of the run and nothing was downloaded.
C25_PollFailureClassified ==
    IsSome(last_poll) =>
        LET resp == Unwrap(last_poll) IN
        /\ (resp.transport = "ok" /\ resp.status = 401)
              => /\ pc = "done" /\ RunFailedWith("Unauthorized")
                 /\ downloads = 0 /\ ~out_written
        /\ (C25_FailureBody(resp) /\ C25_AuthText(resp))
              => /\ pc = "done" /\ RunFailedWith("Unauthorized")
                 /\ downloads = 0 /\ ~out_written
        /\ (C25_FailureBody(resp) /\ ~C25_AuthText(resp))
              => /\ pc = "done" /\ RunFailedWith("ServerError")
                 /\ downloads = 0 /\ ~out_written

\* A run ended with Unauthorized at its third poll, whose response had
\* status 200 and a failure body with the error text "Unauthorized".
C25_Witness ==
    /\ pc = "done"
    /\ RunFailedWith("Unauthorized")
    /\ polls = 3
    /\ IsSome(last_poll)
    /\ Unwrap(last_poll).status = 200
    /\ C25_FailureBody(Unwrap(last_poll))
    /\ Unwrap(last_poll).body.error = Some(<<"U","n","a","u","t","h","o","r","i","z","e","d">>)
    /\ downloads = 0

\* The response is a success payload whose status normalizes to Failed.
C26_FailedStatus(resp) ==
    /\ C6_Payload(resp)
    /\ IsSome(resp.body.data)
    /\ to_lowercase(Unwrap(resp.body.data)) \in {failed, error}

\* C26: when the latest poll response is a success payload whose status is
\* "failed" or "error" in any letter case, the run has ended with JobFailed
\* carrying the error text of the response's data when it has one; that poll
\* was the last request, and no download and no archive followed.
C26_FailedStatusEndsRun ==
    (IsSome(last_poll) /\ C26_FailedStatus(Unwrap(last_poll)))
        => /\ pc = "done"
           /\ RunFailedWith("JobFailed")
           /\ IsSome(Unwrap(last_poll).body.job_error)
                => Unwrap(run_result).text = Unwrap(Unwrap(last_poll).body.job_error)
           /\ downloads = 0
           /\ ~out_written
           /\ ~C14_ArchiveAttempted
           /\ input_present

\* A run ended with JobFailed("bad pdf") at its second poll, whose status
\* was "Failed".
C26_Witness ==
    /\ pc = "done"
    /\ RunFailedWith("JobFailed")
    /\ Unwrap(run_result).text = bad_pdf
    /\ polls = 2
    /\ Unwrap(last_poll).body.data = Some(<<"F","a","i","l","e","d">>)
    /\ downloads = 0

\* C27: the status text of every polled payload is normalized, whatever its
\* letter case, "queued" to Queued, "processing" to Processing, "completed"
\* and "done" to Completed, "failed" and "error" to Failed, and any other
\* text to Unknown carrying the text as the server sent it.
C27_StatusNormalized ==
    (IsSome(last_poll) /\ C6_Payload(Unwrap(last_poll))
                       /\ IsSome(Unwrap(last_poll).body.data))
        => LET raw == Unwrap(Unwrap(last_poll).body.data)
               lowered == to_lowercase(raw)
           IN  JobStatus_from(raw) =
                  CASE lowered = queued -> <<"Queued">>
                    [] lowered = processing -> <<"Processing">>
                    [] lowered \in {completed, done} -> <<"Completed">>
                    [] lowered \in {failed, error} -> <<"Failed">>
                    [] OTHER -> <<"Unknown", raw>>

\* What the run's download is to write, and where.
C28_OutputPath == get_output_path(RunEvent.path, RunEvent.tool_config)

\* C28: a download answered with status 401 ends the run with Unauthorized
\* and one answered with any other status outside 200..299 ends it with
\* ServerError, in both cases with no directory created and nothing written;
\* whatever the download has created or written is the parent directory of
\* the computed output path and the file at that path, and was made under a
\* status in 200..299; a download that succeeded has made both.
C28_DownloadClassified ==
    /\ IsSome(down_resp) =>
         LET resp == Unwrap(down_resp) IN
         /\ (resp.transport = "ok" /\ resp.status = 401)
               => /\ pc = "done" /\ RunFailedWith("Unauthorized")
                  /\ out_disk = NoDisk /\ ~out_written
         /\ (resp.transport = "ok" /\ resp.status # 401 /\ resp.status \notin 200..299)
               => /\ pc = "done" /\ RunFailedWith("ServerError")
                  /\ out_disk = NoDisk /\ ~out_written
    /\ out_disk # NoDisk
         => /\ IsSome(down_resp)
            /\ Unwrap(down_resp).transport = "ok"
            /\ Unwrap(down_resp).status \in 200..299
            /\ out_disk.dir = Some(parent(C28_OutputPath))
            /\ out_disk.file \in {NoneOpt, Some(C28_OutputPath)}
    /\ out_written <=> out_disk.file # NoneOpt
    /\ (pc = "archive" \/ (pc = "done" /\ IsSome(run_result) /\ Unwrap(run_result).ok))
         => out_disk = [dir |-> Some(parent(C28_OutputPath)),
                        file |-> Some(C28_OutputPath)]

\* A run whose download was answered 404 after two polls: ServerError,
\* nothing on disk, the input still in place.
C28_Witness ==
    /\ pc = "done"
    /\ RunFailedWith("ServerError")
    /\ IsSome(down_resp)
    /\ Unwrap(down_resp).transport = "ok"
    /\ Unwrap(down_resp).status = 404
    /\ polls = 2
    /\ out_disk = NoDisk
    /\ input_present

(***************************************************************************)
(* SpecOutput: get_output_path, call after call, over input paths, tool    *)
(* identifiers and output modes.                                           *)
(***************************************************************************)
PathReport == <<DirW, <<"r","e","p","o","r","t",".","p","d","f">> >>
PathTarPdf == <<DirW, DirSub, <<"a",".","t","a","r",".","p","d","f">> >>
DirOut == <<"o","u","t">>

OutputInputs == {PathReport, PathA, PathB, PathTarPdf, PathDotPdf, PathNoExt}

OutputTools == {"compress", "pdf-to-word", "pdf-to-excel", "pdf-to-jpg", "outline"}

OutputModes == {<<"SameFolder">>, <<"Subfolder">>, <<"Custom", <<DirOut>> >>,
                <<"Custom", FolderSub>>}

\* process_file_event: get_output_path(&event.path, &event.tool_config)
OutputCall(input_path, config) ==
    /\ o_call' = Some([input_path |-> input_path, config |-> config])
    /\ o_path' = Some(get_output_path(input_path, config))

InitOutput ==
    /\ OutputIdle /\ ScanIdle /\ CallbackIdle /\ StopIdle /\ LaterIdle
    /\ WatcherInit /\ ResolveIdle /\ PipelineIdle /\ ArchiveIdle
    /\ ConsumerIdle /\ JobIdle /\ RegistryIdle

NextOutput ==
    /\ \E input_path \in OutputInputs, id \in OutputTools, mode \in OutputModes :
          OutputCall(input_path, ToolConfig(id, TRUE, Some(parent(input_path)), mode))
    /\ UNCHANGED <<wvars, rvars, pvars, avars, cvars, jvars, gvars, svars, nvars, tvars, zvars>>

SpecOutput == InitOutput /\ [][NextOutput]_vars

\* The stems of the input file names.
C29_Stem ==
    [ input_path \in OutputInputs |->
        CASE input_path = PathReport -> <<"r","e","p","o","r","t">>
          [] input_path = PathA -> <<"a">>
          [] input_path = PathB -> <<"b">>
          [] input_path = PathTarPdf -> <<"a",".","t","a","r">>
          [] input_path = PathDotPdf -> <<".","p","d","f">>
          [] input_path = PathNoExt -> <<"p","d","f">> ]

C29_Extension(id) ==
    CASE id = "pdf-to-word" -> <<"d","o","c","x">>
      [] id = "pdf-to-excel" -> <<"x","l","s","x">>
      [] id = "pdf-to-jpg" -> <<"z","i","p">>
      [] OTHER -> <<"p","d","f">>

\* The directory of the input: its path without the last component.
C29_InputDir(input_path) == [i \in 1..(Len(input_path) - 1) |-> input_path[i]]

C29_Directory(input_path, mode) ==
    CASE mode[1] = "SameFolder" -> C29_InputDir(input_path)
      [] mode[1] = "Subfolder" ->
            C29_InputDir(input_path) \o << <<"P","r","o","c","e","s","s","e","d">> >>
      [] mode[1] = "Custom" -> mode[2]

\* C29: the path returned is <stem>_<tool identifier>.<extension> (docx for
\* pdf-to-word, xlsx for pdf-to-excel, zip for pdf-to-jpg, pdf for the other
\* tools) in the input's directory, in its Processed subdirectory or in the
\* custom directory, as the output mode says; for pdf-to-word, /w/report.pdf
\* and Subfolder it is /w/Processed/report_pdf-to-word.docx.
C29_OutputPath ==
    IsSome(o_call) =>
        LET input_path == Unwrap(o_call).input_path
            config == Unwrap(o_call).config
        IN  /\ o_path = Some(C29_Directory(input_path, config.output_mode)
                             \o << C29_Stem[input_path] \o <<"_">> \o ToolIdText[config.id]
                                   \o <<".">> \o C29_Extension(config.id) >>)
            /\ ( /\ input_path = PathReport
                 /\ config.id = "pdf-to-word"
                 /\ config.output_mode = <<"Subfolder">> )
                => o_path = Some(<< DirW, <<"P","r","o","c","e","s","s","e","d">>,
                                    <<"r","e","p","o","r","t","_","p","d","f","-","t","o",
                                      "-","w","o","r","d",".","d","o","c","x">> >>)

\* get_output_path was called for pdf-to-word, /w/report.pdf and Subfolder.
C29_Witness ==
    /\ IsSome(o_call)
    /\ Unwrap(o_call).input_path = PathReport
    /\ Unwrap(o_call).config.id = "pdf-to-word"
    /\ Unwrap(o_call).config.output_mode = <<"Subfolder">>
    /\ IsSome(o_path)

(***************************************************************************)
(* SpecStop: save_config drops the FolderWatcher while the consumer task   *)
(* is inside a run of process_file_event and process_events still holds    *)
(* the receiving end of the notify channel.                                *)
(***************************************************************************)
MaxStopNotifs == 1

\* The answers of the API in these runs.
StopUploads == {NetworkError, HttpResponse(200, UploadBody(TRUE, Some("uuid-1")))}
StopPolls == {HttpResponse(200, StatusBody(processing)), HttpResponse(200, StatusBody(completed))}
StopDownloads == {HttpResponse(200, NoBody), HttpResponse(500, NoBody)}

\* Mutant of CallbackRegistered: the callback outlives the watcher.
CallbackRegisteredForEver(watcher) == TRUE

\* The OS runs the callback only for a RecommendedWatcher that exists: it is
\* owned by the FolderWatcher and goes with it.
CallbackRegistered(watcher) == watcher = "alive"

\* The OS reports a change and the callback queues it.
StopNotify ==
    /\ CallbackRegistered(t_watcher)
    /\ t_delivered < MaxStopNotifs
    /\ CallbackFires
    /\ t_delivered' = t_delivered + 1
    /\ UNCHANGED <<t_watcher, t_accepted, t_drop_delivered, t_drop_pc>>

\* process_events takes a queued notification for handle_notify_event; its
\* task was spawned detached and runs on after the drop.
StopRecv ==
    /\ EngineRecv
    /\ t_accepted' = t_accepted + 1
    /\ UNCHANGED <<t_watcher, t_delivered, t_drop_delivered, t_drop_pc>>

\* save_config: if let Some(w) = watcher.take() { drop(w) }
DropWatcher ==
    /\ t_watcher = "alive"
    /\ t_watcher' = "dropped"
    /\ t_drop_delivered' = t_delivered
    /\ t_drop_pc' = pc
    /\ UNCHANGED <<t_delivered, t_accepted>>

\* One step of the run the consumer task is in.
StopRunStep ==
    \/ /\ \/ \E resp \in StopUploads : Upload(resp)
          \/ \E resp \in StopPolls : PollIter(resp)
          \/ PollTimeout
          \/ \E resp \in StopDownloads : Download(resp, "ok")
       /\ UNCHANGED avars
    \/ Archive("ok")

InitStop ==
    /\ StopIdle
    /\ PipelineInit /\ input_present /\ originals_dir = <<>>
    /\ WatcherInit /\ ResolveIdle
    /\ ConsumerIdle /\ JobIdle /\ RegistryIdle
    /\ ScanIdle /\ CallbackIdle /\ OutputIdle /\ LaterIdle

NextStop ==
    \/ /\ StopNotify
       /\ UNCHANGED <<wvars, rvars, pvars, avars, cvars, jvars, gvars, svars, ovars, zvars>>
    \/ /\ StopRecv
       /\ UNCHANGED <<wvars, rvars, pvars, avars, cvars, jvars, gvars, svars, ovars, zvars>>
    \/ /\ DropWatcher
       /\ UNCHANGED <<wvars, rvars, pvars, avars, cvars, jvars, gvars, svars, nvars, ovars, zvars>>
    \/ /\ StopRunStep
       /\ UNCHANGED <<wvars, rvars, cvars, jvars, gvars, yvars>>

\* The consumer task is scheduled and every request returns (the client's
\* timeout), so a run that can take a step takes one.
SpecStop ==
    /\ InitStop
    /\ [][NextStop]_vars
    /\ WF_vars(StopRunStep /\ UNCHANGED <<wvars, rvars, cvars, jvars, gvars, yvars>>)

\* C30: once the FolderWatcher is dropped no further notification is
\* delivered, so process_events accepts none but those queued before; the
\* drop leaves the run in progress as it stands, and that run goes on to end
\* with a result.
C30_StopKeepsRun ==
    /\ [](t_watcher = "dropped"
            => /\ t_delivered = t_drop_delivered
               /\ t_accepted <= t_drop_delivered)
    /\ [][t_watcher' # t_watcher => UNCHANGED pvars]_vars
    /\ (t_watcher = "dropped" /\ pc # "done") ~> (pc = "done" /\ IsSome(run_result))

\* The watcher was dropped while the run was polling; the run went on to
\* three more polls, the download and the archive step, and ended with Ok.
C30_Witness ==
    /\ t_watcher = "dropped"
    /\ t_drop_pc = "poll"
    /\ t_drop_delivered = 1
    /\ pc = "done"
    /\ IsSome(run_result) /\ Unwrap(run_result).ok
    /\ polls >= 4
    /\ archived = 1

\* ---------------------------------------------------------------------
\* C34: a notification whose kind is neither create nor modify leaves
\* the pending set exactly as it was, for every path it carries: no
\* entry is added, none is removed and no quiet period is restarted.
C34_OtherKindsKeepPending ==
    [][ (last_op'.op = "recv" /\ last_op'.event.kind \notin {"Create", "Modify"})
            => pending_files' = pending_files ]_vars

\* A Remove notification naming PathA has just been handled while PathA
\* was pending with a quiet period that had already begun.
C34_Witness ==
    /\ last_op.op = "recv"
    /\ last_op.event.kind = "Remove"
    /\ \E i \in DOMAIN last_op.event.paths : last_op.event.paths[i] = PathA
    /\ PathA \in DOMAIN pending_files
    /\ pending_files[PathA] > 0

\* ---------------------------------------------------------------------
\* C37: a run that ends with an error of the upload, of polling or of the
\* download leaves the original input where it was and does not touch the
\* Originals folder: only the archive step, which a failed run never
\* reaches, moves the input or writes to Originals.
C37_FailedRunLeavesInput ==
    [][ /\ pc # "archive" =>
              /\ input_present' = input_present
              /\ originals_dir' = originals_dir
              /\ archived' = archived
              /\ archive_err' = archive_err
        /\ (IsSome(run_result') /\ ~Unwrap(run_result').ok) =>
              /\ pc \in {"upload", "poll", "download"}
              /\ archived' = 0
              /\ archive_err' = NoneOpt ]_vars

\* The download was answered but the output file could not be written: the
\* run failed in its last step before the archive and the input is in place.
C37_Witness ==
    /\ pc = "done"
    /\ RunFailedWith("Io")
    /\ downloads = 1
    /\ C14_UploadSucceeded
    /\ input_present
    /\ archived = 0
    /\ originals_dir = <<>>

\* ---------------------------------------------------------------------
\* C36: when the subscriber lags by more than the buffer holds, only the
\* overwritten events are lost: the consumer task keeps running, no send
\* fails for want of a receiver, and every event the buffer still retains
\* has been consumed or is still to be received by the running consumer.
C36_LagLosesOnlyOverwritten ==
    /\ consumer # "ended"
    /\ ~send_failed
    /\ \A seq \in 1..tx_count :
          Retained(seq) => (seq \in consumed \/ seq >= rx_next)

\* ---------------------------------------------------------------------
\* C32: a pending path whose file has disappeared is not kept for ever:
\* as long as check_pending_files keeps running, the path does not stay
\* pending, its quiet period over and its file missing, from some point on.
C32_VanishedPathDropped ==
    ([]<>(last_op.op = "scan")) =>
        []<>~( /\ PathA \in DOMAIN pending_files
               /\ pending_files[PathA] >= DebounceQ
               /\ fs[PathA] = "missing" )

\* ---------------------------------------------------------------------
\* C35: a file the pipeline writes itself is never taken as a new input,
\* for any tool and output mode: neither the downloaded output nor the
\* original moved to Originals is a path that handle_notify_event accepts
\* inside the watched folder, when the input was itself an accepted path.
C35_ArchivedPath(input_path) ==
    parent(input_path) \o << <<"O","r","i","g","i","n","a","l","s">>,
                             Unwrap(file_name(input_path)) >>

C35_OwnFilesNeverPromoted ==
    (IsSome(o_call) /\ passes_filters(Unwrap(o_call).input_path)) =>
        LET input_path == Unwrap(o_call).input_path
            folder_path == Unwrap(Unwrap(o_call).config.folder_path)
        IN  /\ ~( /\ passes_filters(Unwrap(o_path))
                  /\ path_starts_with(Unwrap(o_path), folder_path) )
            /\ ~passes_filters(C35_ArchivedPath(input_path))

\* ---------------------------------------------------------------------
\* SpecLog: the global log buffer of lib.rs.  Every call takes the Mutex
\* for its whole body, so a call is one step whichever thread makes it.
\* An entry is modelled by its number: the n-th entry added since the
\* buffer was last cleared.

\* "Keep only last 500 logs"
LOG_LIMIT == 500

MaxLogAdds == 502

\* Mutant of EvictOldest: the newest entry is removed instead.
EvictNewest(logs) ==
    IF Len(logs) > LOG_LIMIT THEN SubSeq(logs, 1, Len(logs) - 1) ELSE logs

\* if logs.len() > 500 { logs.remove(0); }
EvictOldest(logs) ==
    IF Len(logs) > LOG_LIMIT THEN Tail(logs) ELSE logs

\* add_log(message): push, then evict.
add_log ==
    /\ l_added < MaxLogAdds
    /\ l_added' = l_added + 1
    /\ l_buffer' = EvictOldest(Append(l_buffer, l_added + 1))

\* clear_logs()
clear_logs ==
    /\ l_buffer' = <<>>
    /\ l_added' = 0

InitLog ==
    /\ LogIdle /\ AppIdle
    /\ ScanIdle /\ CallbackIdle /\ OutputIdle /\ StopIdle
    /\ WatcherInit /\ ResolveIdle /\ PipelineIdle /\ ArchiveIdle
    /\ ConsumerIdle /\ JobIdle /\ RegistryIdle

NextLog ==
    /\ \/ add_log
       \/ clear_logs
    /\ UNCHANGED <<wvars, rvars, pvars, avars, cvars, jvars, gvars, svars, nvars, ovars,
                   tvars, qvars>>

SpecLog == InitLog /\ [][NextLog]_vars

\* C40: after any sequence of add_log and clear_logs calls the buffer holds
\* at most 500 entries, and they are the most recently added ones since the
\* latest clear, in the order they were added: the oldest are evicted first.
C40_Last500InOrder ==
    /\ Len(l_buffer) <= LOG_LIMIT
    /\ Len(l_buffer) = (IF l_added <= LOG_LIMIT THEN l_added ELSE LOG_LIMIT)
    /\ \A i \in 1..Len(l_buffer) : l_buffer[i] = l_added - Len(l_buffer) + i

\* 502 entries were added since the latest clear: the buffer is full and
\* the two oldest entries are gone.
C40_Witness ==
    /\ l_added = LOG_LIMIT + 2
    /\ Len(l_buffer) = LOG_LIMIT
    /\ l_buffer[1] = 3
    /\ l_buffer[LOG_LIMIT] = LOG_LIMIT + 2

\* ---------------------------------------------------------------------
\* SpecApp: the commands of lib.rs.  AppState holds the configuration and
\* the watcher slot, an Option<FolderWatcher> behind a tokio RwLock that
\* enable_tool and start_watchers take for writing before they look at
\* the slot.  A command that takes the lock for a single statement
\* (save_config, disable_tool) is one step taken when the lock is free.

AppTools == {"compress", "outline"}
AppCommands == {"enable_tool", "start_watchers"}

\* serde_json::Value of ToolConfig.options; "{}" is json!({}).
AppOptions == {"{}", "{quality:9}"}

MaxTaken == 1
MaxOutcomes == 1

\* config::ToolConfig with its options.
AppToolConfig(id, enabled, folder_path, output_mode, options) ==
    [id |-> id, enabled |-> enabled, folder_path |-> folder_path,
     output_mode |-> output_mode, options |-> options]

\* self.tools.iter().position(|t| t.id == tool_id), 0 for None.
ToolPosition(tools, tool_id) ==
    IF \E i \in DOMAIN tools : tools[i].id = tool_id
    THEN CHOOSE i \in DOMAIN tools :
            /\ tools[i].id = tool_id
            /\ \A j \in DOMAIN tools : tools[j].id = tool_id => i <= j
    ELSE 0

\* AppConfig::enable_tool, its "update or add tool config" part.
EnabledTools(tools, tool_id, folder_path) ==
    LET idx == ToolPosition(tools, tool_id) IN
    IF idx # 0
    THEN [tools EXCEPT ![idx].enabled = TRUE, ![idx].folder_path = Some(folder_path)]
    ELSE Append(tools, AppToolConfig(tool_id, TRUE, Some(folder_path), <<"Subfolder">>, "{}"))

\* AppConfig::disable_tool
DisabledTools(tools, tool_id) ==
    LET idx == ToolPosition(tools, tool_id) IN
    IF idx # 0 THEN [tools EXCEPT ![idx].enabled = FALSE] ELSE tools

\* update_tool_options: config.tools[idx].options = options
OptionsSet(tools, tool_id, options) ==
    LET idx == ToolPosition(tools, tool_id) IN
    IF idx # 0 THEN [tools EXCEPT ![idx].options = options] ELSE tools

\* The configurations the application starts with (load_config) and the
\* ones save_config is called with.
StoredConfigs ==
    { <<>>,
      << AppToolConfig("compress", TRUE, Some(FolderW), <<"Subfolder">>, "{}") >> }

\* Mutant of WatcherLockFree: the write lock excludes nobody.
WatcherLockShared(lock) == TRUE

\* state.watcher.write().await returns once no other guard is held.
WatcherLockFree(lock) == lock = NoneOpt

\* The registry of the watcher in the slot.
SlotRegistry ==
    IF IsSome(q_watcher) THEN q_watchers[Unwrap(q_watcher)].registry ELSE <<>>

\* watcher.add_folder for each configuration in turn, errors logged only.
RECURSIVE AddFolders(_, _)
AddFolders(registry, configs) ==
    IF configs = <<>> THEN registry
    ELSE AddFolders(
            FolderWatcher_add_folder(RegistryState(Folders, DOMAIN registry, registry),
                                     Head(configs), "ok").state.registry,
            Tail(configs))

\* enable_tool up to its clone of the tool's configuration.
EnableToolBegin(tool_id, folder_path) ==
    /\ q_pc["enable_tool"] = "idle"
    /\ LET tools == EnabledTools(q_config, tool_id, folder_path) IN
       /\ q_config' = tools
       /\ q_args' = [q_args EXCEPT !["enable_tool"] = <<tools[ToolPosition(tools, tool_id)]>>]
    /\ q_pc' = [q_pc EXCEPT !["enable_tool"] = "wait"]
    /\ UNCHANGED <<q_lock, q_watcher, q_watchers, q_taken, q_event, q_outcomes,
                   q_notifications>>

\* start_watchers up to its list of enabled tools; it returns when the
\* list is empty.
StartWatchersBegin ==
    /\ q_pc["start_watchers"] = "idle"
    /\ LET enabled_tools == SelectSeq(q_config,
                                LAMBDA t : t.enabled /\ IsSome(t.folder_path)) IN
       /\ q_args' = [q_args EXCEPT !["start_watchers"] = enabled_tools]
       /\ q_pc' = [q_pc EXCEPT !["start_watchers"] =
                        IF enabled_tools = <<>> THEN "idle" ELSE "wait"]
    /\ UNCHANGED <<q_config, q_lock, q_watcher, q_watchers, q_taken, q_event, q_outcomes,
                   q_notifications>>

\* let mut watcher_guard = state.watcher.write().await;
AcquireLock(cmd) ==
    /\ q_pc[cmd] = "wait"
    /\ WatcherLockFree(q_lock)
    /\ q_lock' = Some(cmd)
    /\ q_pc' = [q_pc EXCEPT ![cmd] = "locked"]
    /\ UNCHANGED <<q_config, q_args, q_watcher, q_watchers, q_taken, q_event, q_outcomes,
                   q_notifications>>

\* if watcher_guard.is_none()
CheckSlot(cmd) ==
    /\ q_pc[cmd] = "locked"
    /\ q_pc' = [q_pc EXCEPT ![cmd] = IF q_watcher = NoneOpt THEN "create" ELSE "ready"]
    /\ UNCHANGED <<q_config, q_lock, q_args, q_watcher, q_watchers, q_taken, q_event,
                   q_outcomes, q_notifications>>

\* FolderWatcher::new(), the consumer task spawned on its receiver, and
\* *watcher_guard = Some(watcher); on Err the command returns.
CreateWatcher(cmd, new_ok) ==
    /\ q_pc[cmd] = "create"
    /\ IF new_ok
       THEN /\ q_watchers' = Append(q_watchers,
                                [creator |-> cmd, consumers |-> 1, registry |-> <<>>])
            /\ q_watcher' = Some(Len(q_watchers) + 1)
            /\ q_pc' = [q_pc EXCEPT ![cmd] = "ready"]
            /\ UNCHANGED <<q_lock, q_args>>
       ELSE /\ q_pc' = [q_pc EXCEPT ![cmd] = "idle"]
            /\ q_args' = [q_args EXCEPT ![cmd] = <<>>]
            /\ q_lock' = NoneOpt
            /\ UNCHANGED <<q_watcher, q_watchers>>
    /\ UNCHANGED <<q_config, q_taken, q_event, q_outcomes, q_notifications>>

\* The add_folder calls on the watcher in the slot, then the guard is
\* dropped with the command's return.
AddAndReturn(cmd) ==
    /\ q_pc[cmd] = "ready"
    /\ IF IsSome(q_watcher)
       THEN q_watchers' = [q_watchers EXCEPT ![Unwrap(q_watcher)].registry =
                                AddFolders(@, q_args[cmd])]
       ELSE UNCHANGED q_watchers
    /\ q_pc' = [q_pc EXCEPT ![cmd] = "idle"]
    /\ q_args' = [q_args EXCEPT ![cmd] = <<>>]
    /\ q_lock' = NoneOpt
    /\ UNCHANGED <<q_config, q_watcher, q_taken, q_event, q_outcomes, q_notifications>>

\* save_config(new_config): the configuration is replaced and the watcher
\* in the slot is taken out and dropped.
SaveConfig(new_config) ==
    /\ WatcherLockFree(q_lock)
    /\ q_taken < MaxTaken
    /\ q_config' = new_config
    /\ q_watcher' = NoneOpt
    /\ q_taken' = IF IsSome(q_watcher) THEN q_taken + 1 ELSE q_taken
    /\ q_watchers' = IF IsSome(q_watcher)
                     THEN [q_watchers EXCEPT ![Unwrap(q_watcher)].registry = <<>>]
                     ELSE q_watchers
    /\ UNCHANGED <<q_lock, q_pc, q_args, q_event, q_outcomes, q_notifications>>

\* update_tool_options(tool_id, options)
UpdateToolOptions(tool_id, options) ==
    /\ q_config' = OptionsSet(q_config, tool_id, options)
    /\ UNCHANGED <<q_lock, q_pc, q_args, q_watcher, q_watchers, q_taken, q_event,
                   q_outcomes, q_notifications>>

\* disable_tool(tool_id): the folder is read from the configuration, the
\* tool is disabled there, and remove_folder is called for that folder.
DisableTool(tool_id) ==
    /\ WatcherLockFree(q_lock)
    /\ LET idx == ToolPosition(q_config, tool_id)
           folder_path == IF idx # 0 THEN q_config[idx].folder_path ELSE NoneOpt
       IN  /\ q_config' = DisabledTools(q_config, tool_id)
           /\ IF IsSome(folder_path) /\ IsSome(q_watcher)
              THEN q_watchers' =
                      [q_watchers EXCEPT ![Unwrap(q_watcher)].registry =
                          FolderWatcher_remove_folder(
                              RegistryState(Folders, DOMAIN @, @),
                              Unwrap(folder_path), "WatchNotFound").state.registry]
              ELSE UNCHANGED q_watchers
    /\ UNCHANGED <<q_lock, q_pc, q_args, q_watcher, q_taken, q_event, q_outcomes,
                   q_notifications>>

\* The notification the start_watchers consumer requests for an outcome.
Notification(file_name_text, outcome) ==
    IF outcome = "Ok"
    THEN [title |-> "PDF.dk - File Processed", file_name |-> file_name_text,
          text |-> "completed successfully"]
    ELSE [title |-> "PDF.dk - Processing Failed", file_name |-> file_name_text,
          text |-> outcome]

\* What each consumer task does with the result of process_file_event:
\* the one spawned by start_watchers logs and notifies, the one spawned by
\* enable_tool logs only.
ConsumerNotifies(creator) == creator = "start_watchers"

\* The engine of the watcher in the slot sends a FileEvent for a file in a
\* registered folder; each consumer task on its channel runs the pipeline
\* for it up to the outcome.
ProcessEvent(folder_path, outcome) ==
    /\ IsSome(q_watcher)
    /\ folder_path \in DOMAIN SlotRegistry
    /\ q_outcomes < MaxOutcomes
    /\ LET watcher == q_watchers[Unwrap(q_watcher)]
           event == FileEvent(join(folder_path, <<"a",".","p","d","f">>),
                              watcher.registry[folder_path])
       IN  /\ q_event' = Some(event)
           /\ q_outcomes' = q_outcomes + watcher.consumers
           /\ q_notifications' =
                 IF ConsumerNotifies(watcher.creator)
                 THEN Append(q_notifications, Notification("a.pdf", outcome))
                 ELSE q_notifications
    /\ UNCHANGED <<q_config, q_lock, q_pc, q_args, q_watcher, q_watchers, q_taken>>

InitApp ==
    /\ q_config \in StoredConfigs
    /\ q_lock = NoneOpt
    /\ q_pc = [cmd \in AppCommands |-> "idle"]
    /\ q_args = [cmd \in AppCommands |-> <<>>]
    /\ q_watcher = NoneOpt
    /\ q_watchers = <<>>
    /\ q_taken = 0
    /\ q_event = NoneOpt
    /\ q_outcomes = 0
    /\ q_notifications = <<>>
    /\ LogIdle
    /\ ScanIdle /\ CallbackIdle /\ OutputIdle /\ StopIdle
    /\ WatcherInit /\ ResolveIdle /\ PipelineIdle /\ ArchiveIdle
    /\ ConsumerIdle /\ JobIdle /\ RegistryIdle

NextApp ==
    /\ \/ \E tool_id \in AppTools : EnableToolBegin(tool_id, FolderW)
       \/ StartWatchersBegin
       \/ \E cmd \in AppCommands : AcquireLock(cmd)
       \/ \E cmd \in AppCommands : CheckSlot(cmd)
       \/ \E cmd \in AppCommands, new_ok \in BOOLEAN : CreateWatcher(cmd, new_ok)
       \/ \E cmd \in AppCommands : AddAndReturn(cmd)
       \/ \E new_config \in StoredConfigs : SaveConfig(new_config)
       \/ \E tool_id \in AppTools : DisableTool(tool_id)
       \/ \E folder_path \in Folders, outcome \in {"Ok", "Timeout"} :
             ProcessEvent(folder_path, outcome)
    /\ UNCHANGED <<wvars, rvars, pvars, avars, cvars, jvars, gvars, svars, nvars, ovars,
                   tvars, lvars>>

SpecApp == InitApp /\ [][NextApp]_vars

\* C39: under any interleaving of enable_tool and start_watchers a watcher
\* is created only while the slot is empty, so every watcher ever created
\* is either the one in the slot or one that save_config took out; each
\* created watcher has exactly one consumer task, so an event gives one run.
C39_OneWatcherOneConsumer ==
    /\ Len(q_watchers) = q_taken + (IF IsSome(q_watcher) THEN 1 ELSE 0)
    /\ IsSome(q_watcher) => Unwrap(q_watcher) = Len(q_watchers)
    /\ \A w \in DOMAIN q_watchers : q_watchers[w].consumers = 1

\* enable_tool holds the lock and found the watcher that start_watchers
\* created, which has its folder registered; no watcher was ever dropped.
C39_Witness ==
    /\ q_pc["enable_tool"] = "ready"
    /\ q_lock = Some("enable_tool")
    /\ q_pc["start_watchers"] = "wait"
    /\ Len(q_watchers) = 1
    /\ q_watchers[1].creator = "start_watchers"
    /\ FolderW \in DOMAIN q_watchers[1].registry
    /\ q_taken = 0

\* ---------------------------------------------------------------------
\* SpecTools: the same commands called one after the other, each running
\* to its return, with update_tool_options among them.

\* The slot and the watchers after `if watcher_guard.is_none() { .. }`
\* with FolderWatcher::new() returning Ok.
EnsureWatcher(cmd) ==
    IF q_watcher = NoneOpt
    THEN [watchers |-> Append(q_watchers,
                              [creator |-> cmd, consumers |-> 1, registry |-> <<>>]),
          slot |-> Some(Len(q_watchers) + 1)]
    ELSE [watchers |-> q_watchers, slot |-> q_watcher]

\* A command's locked part: the watcher is created when the slot is empty
\* and the configurations are added to the watcher in the slot.
WatchConfigs(cmd, configs) ==
    LET ensured == EnsureWatcher(cmd) IN
    /\ q_watcher' = ensured.slot
    /\ q_watchers' = [ensured.watchers EXCEPT ![Unwrap(ensured.slot)].registry =
                            AddFolders(@, configs)]

NoCommandInFlight == q_lock = NoneOpt /\ \A cmd \in AppCommands : q_pc[cmd] = "idle"

\* enable_tool(tool_id, folder_path), the whole command.
EnableTool(tool_id, folder_path) ==
    /\ NoCommandInFlight
    /\ LET tools == EnabledTools(q_config, tool_id, folder_path) IN
       /\ q_config' = tools
       /\ WatchConfigs("enable_tool", <<tools[ToolPosition(tools, tool_id)]>>)
    /\ UNCHANGED <<q_lock, q_pc, q_args, q_taken, q_event, q_outcomes, q_notifications>>

\* start_watchers, the whole command.
StartWatchers ==
    /\ NoCommandInFlight
    /\ LET enabled_tools == SelectSeq(q_config,
                                LAMBDA t : t.enabled /\ IsSome(t.folder_path)) IN
       IF enabled_tools = <<>>
       THEN UNCHANGED <<q_watcher, q_watchers>>
       ELSE WatchConfigs("start_watchers", enabled_tools)
    /\ UNCHANGED <<q_config, q_lock, q_pc, q_args, q_taken, q_event, q_outcomes,
                   q_notifications>>

InitTools == InitApp

NextTools ==
    /\ \/ \E tool_id \in AppTools : EnableTool(tool_id, FolderW)
       \/ StartWatchers
       \/ \E new_config \in StoredConfigs : SaveConfig(new_config)
       \/ \E tool_id \in AppTools, options \in AppOptions :
             UpdateToolOptions(tool_id, options)
       \/ \E tool_id \in AppTools : DisableTool(tool_id)
       \/ \E folder_path \in Folders, outcome \in {"Ok", "Timeout"} :
             ProcessEvent(folder_path, outcome)
    /\ UNCHANGED <<wvars, rvars, pvars, avars, cvars, jvars, gvars, svars, nvars, ovars,
                   tvars, lvars>>

SpecTools == InitTools /\ [][NextTools]_vars

\* C31: the registry entry of a watched folder follows its tool's options
\* and output mode: every FileEvent a consumer receives carries the options
\* and the output mode the configuration holds for that tool at that time.
C31_EventCarriesCurrentConfig ==
    [][ q_outcomes' # q_outcomes =>
            LET tool_config == Unwrap(q_event').tool_config
                idx == ToolPosition(q_config, tool_config.id)
            IN  /\ idx # 0
                /\ tool_config.options = q_config[idx].options
                /\ tool_config.output_mode = q_config[idx].output_mode ]_vars

\* ---------------------------------------------------------------------
\* C33: every run that ends, with Ok or with Err, gives exactly one
\* notification carrying the file name and, for Err, the error text,
\* whichever command created the watcher and its consumer task.
C33_OneNotificationPerOutcome ==
    /\ Len(q_notifications) = q_outcomes
    /\ \A i \in DOMAIN q_notifications :
          /\ q_notifications[i].file_name = "a.pdf"
          /\ q_notifications[i].title = "PDF.dk - Processing Failed"
                => q_notifications[i].text = "Timeout"

\* The step is disable_tool for the tool with this id: its enabled flag
\* goes from true to false and the tools are otherwise the same.
C38_Disables(tool_id) ==
    /\ Len(q_config') = Len(q_config)
    /\ \E i \in DOMAIN q_config :
          /\ q_config[i].id = tool_id
          /\ q_config[i].enabled
          /\ ~q_config'[i].enabled

C38_EnabledIn(tools, tool_id) ==
    \E i \in DOMAIN tools : tools[i].id = tool_id /\ tools[i].enabled

\* C38: disabling one tool never removes the registry entry that routes a
\* folder's files to another tool that is still enabled, also when the two
\* tools were enabled on the same folder.
C38_DisableKeepsOtherTool ==
    [][ \A tool_id \in AppTools, folder_path \in DOMAIN SlotRegistry :
            ( /\ C38_Disables(tool_id)
              /\ SlotRegistry[folder_path].id # tool_id
              /\ C38_EnabledIn(q_config', SlotRegistry[folder_path].id) )
            => /\ folder_path \in DOMAIN SlotRegistry'
               /\ SlotRegistry'[folder_path] = SlotRegistry[folder_path] ]_vars
====
